---- MODULE Spec2Model ----
(***************************************************************************)
(* Questionnaire rule engine of the MSK triage system                      *)
(* (src/app/questionnaire_engine.py) evaluated on the shipped              *)
(* specifications (src/app/questionnaire_specs.py).                        *)
(*                                                                         *)
(* Encoding of Python data:                                                *)
(*   - a Python value is a tagged record [t |-> type, v |-> payload];      *)
(*   - a dict that is iterated in insertion order (scores, reasons, a      *)
(*     then_add / add map, a `when` condition) is a sequence of <<k, v>>;  *)
(*   - a dotted path "a.b.c" is the sequence <<"a", "b", "c">> that        *)
(*     str.split('.') produces;                                            *)
(*   - a formula string is the sequence of its lexical pieces, e.g.        *)
(*     "round(0.8*scale*deficit)" = <<"round(", "0.8", "*",                *)
(*     "scale*deficit", ")">>;                                             *)
(*   - a float with one decimal (scale, multiplier) is an integer number   *)
(*     of tenths; round() is round-half-to-even on the exact quotient.     *)
(***************************************************************************)
EXTENDS Integers, Sequences, FiniteSets, TLC

(* ------------------------------------------------------------------ *)
(* Python values                                                      *)
(* ------------------------------------------------------------------ *)
None == [t |-> "none", v |-> 0]

PyStr(s) == [t |-> "str", v |-> s]

PyInt(n) == [t |-> "int", v |-> n]

PyBool(b) == [t |-> "bool", v |-> b]

PyList(q) == [t |-> "list", v |-> q]

PyDict(f) == [t |-> "dict", v |-> f]

EmptyDict == PyDict(<<>>)

(* bool(x) *)
Truthy(x) ==
  CASE x.t = "none" -> FALSE
    [] x.t = "bool" -> x.v
    [] x.t = "int"  -> x.v # 0
    [] x.t = "str"  -> x.v # ""
    [] x.t = "list" -> Len(x.v) > 0
    [] x.t = "dict" -> DOMAIN x.v # {}

IsNumber(x) == x.t \in {"int", "bool"}

(* the integer a bool or an int compares as (True == 1, False == 0) *)
NumVal(x) == IF x.t = "bool" THEN (IF x.v THEN 1 ELSE 0) ELSE x.v

(* a == b on the scalar values that occur in records and conditions *)
PyEq(a, b) ==
  IF IsNumber(a) /\ IsNumber(b) THEN NumVal(a) = NumVal(b)
  ELSE a.t = b.t /\ a = b

(* x in lst *)
PyIn(x, lst) == \E i \in 1..Len(lst) : PyEq(lst[i], x)

(* ------------------------------------------------------------------ *)
(* get_by_path                                                        *)
(* ------------------------------------------------------------------ *)
(* variant: the walk stops at the value it cannot go on from and returns it *)
RECURSIVE get_by_pathKeepCurrent(_, _)
get_by_pathKeepCurrent(d, dotted) ==
  IF dotted = <<>> THEN d
  ELSE IF d.t = "dict" /\ Head(dotted) \in DOMAIN d.v
       THEN get_by_pathKeepCurrent(d.v[Head(dotted)], Tail(dotted))
       ELSE d

RECURSIVE get_by_path(_, _)
get_by_path(d, dotted) ==
  IF dotted = <<>> THEN d
  ELSE IF d.t = "dict" /\ Head(dotted) \in DOMAIN d.v
       THEN get_by_path(d.v[Head(dotted)], Tail(dotted))
       ELSE None

(* ------------------------------------------------------------------ *)
(* Insertion-ordered dicts as sequences of <<key, value>>             *)
(* ------------------------------------------------------------------ *)
DictHas(d, k) == \E i \in 1..Len(d) : d[i][1] = k

DictGet(d, k, default) ==
  IF DictHas(d, k) THEN d[CHOOSE i \in 1..Len(d) : d[i][1] = k][2] ELSE default

DictPut(d, k, val) ==
  IF DictHas(d, k)
  THEN LET i == CHOOSE i \in 1..Len(d) : d[i][1] = k
       IN  SubSeq(d, 1, i - 1) \o <<<<k, val>>>> \o SubSeq(d, i + 1, Len(d))
  ELSE Append(d, <<k, val>>)

(* ------------------------------------------------------------------ *)
(* Number parsing and rounding                                        *)
(* ------------------------------------------------------------------ *)
DigitTokens == <<"0", "1", "2", "3", "4", "5", "6", "7", "8", "9">>

TenthTokens == <<"0.0", "0.1", "0.2", "0.3", "0.4", "0.5", "0.6", "0.7", "0.8", "0.9">>

(* int("6") = 6 *)
ParseInt(tok) == (CHOOSE i \in 1..Len(DigitTokens) : DigitTokens[i] = tok) - 1

(* float("0.8"), in tenths *)
ParseTenths(tok) == (CHOOSE i \in 1..Len(TenthTokens) : TenthTokens[i] = tok) - 1

(* Python 3 round(n / d) for d > 0: nearest integer, ties to the even one *)
Round(n, d) ==
  LET q == n \div d
      r == n - q * d
  IN  IF 2 * r > d THEN q + 1
      ELSE IF 2 * r < d THEN q
      ELSE IF q % 2 = 0 THEN q ELSE q + 1

(* the characters of the strings that are parsed; any other string is one
   opaque piece that is neither an operator nor a digit *)
Chars(s) ==
  CASE s = ">=45" -> <<">", "=", "4", "5">>
    [] s = "<=45" -> <<"<", "=", "4", "5">>
    [] s = ">45"  -> <<">", "4", "5">>
    [] s = "<45"  -> <<"<", "4", "5">>
    [] s = "=45"  -> <<"=", "4", "5">>
    [] s = "65"   -> <<"6", "5">>
    [] OTHER -> <<s>>

StartsWith(cs, prefix) ==
  Len(cs) >= Len(prefix) /\ SubSeq(cs, 1, Len(prefix)) = prefix

(* float() of a digit string, as an integer (the strings used have no fraction) *)
RECURSIVE DigitsVal(_)
DigitsVal(cs) ==
  IF cs = <<>> THEN 0
  ELSE 10 * DigitsVal(SubSeq(cs, 1, Len(cs) - 1)) + ParseInt(cs[Len(cs)])

IsDigits(cs) ==
  cs # <<>> /\ \A i \in 1..Len(cs) : \E j \in 1..Len(DigitTokens) : DigitTokens[j] = cs[i]

(* float(val): <<ok, number>>; a str parses when it is a digit string,
   a list or dict raises TypeError *)
FloatOf(val) ==
  CASE val.t \in {"int", "bool"} -> <<TRUE, NumVal(val)>>
    [] val.t = "str" -> IF IsDigits(Chars(val.v)) THEN <<TRUE, DigitsVal(Chars(val.v))>>
                        ELSE <<FALSE, 0>>
    [] OTHER -> <<FALSE, 0>>

(* ------------------------------------------------------------------ *)
(* condition_match                                                    *)
(* ------------------------------------------------------------------ *)
IsOperatorString(expected) ==
  expected.t = "str" /\
    (StartsWith(Chars(expected.v), <<">">>) \/ StartsWith(Chars(expected.v), <<"<">>)
       \/ StartsWith(Chars(expected.v), <<"=">>))

(* variant: > and < are looked for before >= and <=, so that ">=45" is read
   as > with the suffix "=45", which is no number *)
ComparatorHoldsShortFirst(val, expected) ==
  LET cs  == Chars(expected.v)
      f   == FloatOf(val)
      has == val.t # "none"
      num == f[2]
      suffix == SubSeq(cs, 2, Len(cs))
  IN  IF has /\ ~f[1] THEN FALSE
      ELSE IF ~IsDigits(suffix) THEN FALSE
      ELSE IF StartsWith(cs, <<">">>) THEN has /\ num > DigitsVal(suffix)
      ELSE IF StartsWith(cs, <<"<">>) THEN has /\ num < DigitsVal(suffix)
      ELSE has /\ num = DigitsVal(suffix)

(* lines 37-55: the comparator branch for one key *)
ComparatorHolds(val, expected) ==
  LET cs  == Chars(expected.v)
      f   == FloatOf(val)
      has == val.t # "none"
      num == f[2]
  IN  IF has /\ ~f[1] THEN FALSE
      ELSE IF StartsWith(cs, <<">", "=">>) THEN has /\ num >= DigitsVal(SubSeq(cs, 3, Len(cs)))
      ELSE IF StartsWith(cs, <<"<", "=">>) THEN has /\ num <= DigitsVal(SubSeq(cs, 3, Len(cs)))
      ELSE IF StartsWith(cs, <<">">>) THEN has /\ num > DigitsVal(SubSeq(cs, 2, Len(cs)))
      ELSE IF StartsWith(cs, <<"<">>) THEN has /\ num < DigitsVal(SubSeq(cs, 2, Len(cs)))
      ELSE has /\ num = DigitsVal(SubSeq(cs, 2, Len(cs)))

(* variant: no comparator branch, an operator string is compared like any
   other expected value *)
KeyMatchesNoComparator(input_obj, key, expected) ==
  LET val == get_by_path(input_obj, key)
  IN  IF key = <<"phenotype">> /\ expected.t = "str"
      THEN val.t = "list" /\ PyIn(expected, val.v)
      ELSE IF expected.t = "list" THEN PyIn(val, expected.v)
      ELSE PyEq(val, expected)

(* variant: no phenotype branch, the phenotype is compared with the expected
   string like any other value *)
KeyMatchesNoPhenotype(input_obj, key, expected) ==
  LET val == get_by_path(input_obj, key)
  IN  IF expected.t = "list" THEN PyIn(val, expected.v)
      ELSE IF IsOperatorString(expected) THEN ComparatorHolds(val, expected)
      ELSE PyEq(val, expected)

(* lines 28-58: the test of one (key, expected) item *)
KeyMatches(input_obj, key, expected) ==
  LET val == get_by_path(input_obj, key)
  IN  IF key = <<"phenotype">> /\ expected.t = "str"
      THEN val.t = "list" /\ PyIn(expected, val.v)
      ELSE IF expected.t = "list" THEN PyIn(val, expected.v)
      ELSE IF IsOperatorString(expected) THEN ComparatorHolds(val, expected)
      ELSE PyEq(val, expected)

condition_match(input_obj, when) ==
  \A i \in 1..Len(when) : KeyMatches(input_obj, when[i][1], when[i][2])

KNEE_OA_SPEC ==
  [diagnoses |-> <<"tibiofemoral_oa", "patellofemoral_oa", "pfps", "acl_tear", "pcl_tear", "medial_meniscal_tear", "lateral_meniscal_tear", "mcl_sprain", "lcl_sprain", "patellar_instability", "painful_arthroplasty", "bakers_cyst", "loose_body">>,
   ranking |-> [top_k |-> 3, tie_breakers |-> <<"prefer_exam_positive_over_symptom_only", "prefer_mechanism_consistent", "prefer_side_specific_over_general">>, justification |-> [max_reasons_per_dx |-> 4, reason_selection |-> "highest_weighted_features"]],
   output |-> [confidence_bands |-> <<[min |-> 0, max |-> 7, label |-> "low"], [min |-> 8, max |-> 15, label |-> "moderate"], [min |-> 16, max |-> 1000, label |-> "high"]>>,
               safety_net_rules |-> <<[if |-> <<"any_red_flag_triggered">>, message |-> "Urgent same-day assessment recommended."], [if |-> <<"diagnosis_includes:", "painful_arthroplasty">>, message |-> "Consider infection screen (CRP/ESR), targeted imaging, and arthroplasty review."]>>],
   red_flag_logic |-> <<
      [if_all_true |-> <<<<"red_flags", "fever_unwell_hot_joint">>>>, action |-> [route |-> "urgent", diagnosis |-> "septic_arthritis", override_ranking |-> TRUE]],
      [if_all_true |-> <<<<"red_flags", "true_locked_knee">>>>, action |-> [route |-> "urgent", diagnosis |-> "bucket_handle_meniscal_tear", override_ranking |-> TRUE]],
      [if_all_true |-> <<<<"red_flags", "inability_slr_after_eccentric_load">>>>, action |-> [route |-> "urgent", diagnosis |-> "extensor_mechanism_rupture", override_ranking |-> TRUE]]>>,
   scoring |-> [
      onset_mechanism |-> <<
         [when |-> <<<<<<"duration_class">>, PyStr("acute")>>, <<<<"mechanism">>, PyList(<<PyStr("twisting"), PyStr("pivot")>>)>>>>, add |-> <<<<"acl_tear", 3>>, <<"medial_meniscal_tear", 2>>, <<"lateral_meniscal_tear", 2>>, <<"pcl_tear", 1>>>>],
         [when |-> <<<<<<"duration_class">>, PyStr("acute")>>, <<<<"mechanism">>, PyList(<<PyStr("direct_blow")>>)>>, <<<<"exam", "alignment">>, PyStr("valgus")>>>>, add |-> <<<<"mcl_sprain", 3>>, <<"medial_meniscal_tear", 1>>>>],
         [when |-> <<<<<<"duration_class">>, PyStr("acute")>>, <<<<"mechanism">>, PyList(<<PyStr("direct_blow")>>)>>, <<<<"exam", "alignment">>, PyStr("varus")>>>>, add |-> <<<<"lcl_sprain", 3>>, <<"lateral_meniscal_tear", 1>>>>],
         [when |-> <<<<<<"mechanism">>, PyList(<<PyStr("overuse")>>)>>>>, add |-> <<<<"tibiofemoral_oa", 2>>, <<"patellofemoral_oa", 2>>, <<"pfps", 1>>>>],
         [when |-> <<<<<<"patient", "age_years">>, PyStr(">=45")>>, <<<<"duration_class">>, PyStr("chronic")>>>>, add |-> <<<<"tibiofemoral_oa", 3>>, <<"patellofemoral_oa", 2>>>>],
         [when |-> <<<<<<"mechanism">>, PyList(<<PyStr("post_op")>>)>>>>, add |-> <<<<"painful_arthroplasty", 4>>>>]>>,
      symptoms |-> <<
         [when |-> <<<<<<"phenotype">>, PyStr("instability")>>>>, add |-> <<<<"acl_tear", 3>>, <<"patellar_instability", 2>>, <<"pcl_tear", 1>>>>],
         [when |-> <<<<<<"phenotype">>, PyStr("locking_catching")>>>>, add |-> <<<<"medial_meniscal_tear", 3>>, <<"lateral_meniscal_tear", 3>>, <<"loose_body", 2>>, <<"tibiofemoral_oa", 1>>>>],
         [when |-> <<<<<<"phenotype">>, PyStr("anterior_pain")>>>>, add |-> <<<<"pfps", 3>>, <<"patellofemoral_oa", 2>>, <<"tibiofemoral_oa", 1>>>>],
         [when |-> <<<<<<"oa_pattern">>, PyStr("morning_stiffness_<30min")>>>>, add |-> <<<<"tibiofemoral_oa", 2>>, <<"patellofemoral_oa", 1>>>>]>>,
      oa_index |-> <<
         [when |-> <<<<<<"oa_index", "global_pain">>, PyStr("mild")>>>>, add_all |-> 1],
         [when |-> <<<<<<"oa_index", "global_pain">>, PyStr("moderate")>>>>, add_all |-> 2],
         [when |-> <<<<<<"oa_index", "global_pain">>, PyStr("severe")>>>>, add_all |-> 3],
         [when |-> <<<<<<"oa_index", "global_pain">>, PyStr("unbearable")>>>>, add_all |-> 4],
         [when |-> <<<<<<"oa_index", "stiffness_morning">>, PyList(<<PyStr("moderate"), PyStr("severe"), PyStr("unbearable")>>)>>>>, add |-> <<<<"tibiofemoral_oa", 2>>, <<"patellofemoral_oa", 1>>>>],
         [when |-> <<<<<<"oa_index", "stiffness_after_rest">>, PyList(<<PyStr("moderate"), PyStr("severe"), PyStr("unbearable")>>)>>>>, add |-> <<<<"tibiofemoral_oa", 2>>, <<"patellofemoral_oa", 1>>>>],
         [when |-> <<<<<<"oa_index", "function">>, PyStr("any")>>>>, aggregate |-> <<[method |-> "sum_function_items", map |-> <<<<"none", 0>>, <<"mild", 1>>, <<"moderate", 2>>, <<"severe", 3>>, <<"unbearable", 3>>>>, then_add |-> <<<<"tibiofemoral_oa", <<"floor(", "total/", "6", ")">>>>>>], [method |-> "sum_pf_loaded_items", items |-> <<"stairs_down", "stairs_up", "rise_from_sit", "in_out_car", "socks_on_off">>, map |-> <<<<"none", 0>>, <<"mild", 1>>, <<"moderate", 2>>, <<"severe", 3>>, <<"unbearable", 3>>>>, then_add |-> <<<<"patellofemoral_oa", <<"floor(", "total/", "4", ")">>>>, <<"pfps", <<"floor(", "total/", "5", ")">>>>>>]>>]>>,
      exam |-> <<
         [when |-> <<<<<<"exam", "lachman">>, PyStr("yes_soft_endpoint")>>>>, add |-> <<<<"acl_tear", 6>>>>],
         [when |-> <<<<<<"exam", "lachman">>, PyStr("yes_firm_endpoint")>>>>, add |-> <<<<"acl_tear", 3>>>>],
         [when |-> <<<<<<"exam", "pivot_shift">>, PyBool(TRUE)>>>>, add |-> <<<<"acl_tear", 4>>>>],
         [when |-> <<<<<<"exam", "posterior_drawer">>, PyBool(TRUE)>>>>, add |-> <<<<"pcl_tear", 6>>>>],
         [when |-> <<<<<<"exam", "mcmurray_medial">>, PyBool(TRUE)>>>>, add |-> <<<<"medial_meniscal_tear", 4>>>>],
         [when |-> <<<<<<"exam", "mcmurray_lateral">>, PyBool(TRUE)>>>>, add |-> <<<<"lateral_meniscal_tear", 4>>>>],
         [when |-> <<<<<<"exam", "joint_line_tenderness_medial">>, PyBool(TRUE)>>>>, add |-> <<<<"medial_meniscal_tear", 2>>>>],
         [when |-> <<<<<<"exam", "joint_line_tenderness_lateral">>, PyBool(TRUE)>>>>, add |-> <<<<"lateral_meniscal_tear", 2>>>>],
         [when |-> <<<<<<"exam", "mcl_laxity_grade">>, PyStr("grade1")>>>>, add |-> <<<<"mcl_sprain", 2>>>>],
         [when |-> <<<<<<"exam", "mcl_laxity_grade">>, PyStr("grade2")>>>>, add |-> <<<<"mcl_sprain", 3>>>>],
         [when |-> <<<<<<"exam", "mcl_laxity_grade">>, PyStr("grade3")>>>>, add |-> <<<<"mcl_sprain", 4>>>>],
         [when |-> <<<<<<"exam", "lcl_laxity_grade">>, PyStr("grade1")>>>>, add |-> <<<<"lcl_sprain", 2>>>>],
         [when |-> <<<<<<"exam", "lcl_laxity_grade">>, PyStr("grade2")>>>>, add |-> <<<<"lcl_sprain", 3>>>>],
         [when |-> <<<<<<"exam", "lcl_laxity_grade">>, PyStr("grade3")>>>>, add |-> <<<<"lcl_sprain", 4>>>>],
         [when |-> <<<<<<"exam", "pf_compression_clarke">>, PyBool(TRUE)>>>>, add |-> <<<<"patellofemoral_oa", 3>>, <<"pfps", 2>>>>],
         [when |-> <<<<<<"exam", "patellar_apprehension">>, PyBool(TRUE)>>>>, add |-> <<<<"patellar_instability", 4>>>>],
         [when |-> <<<<<<"exam", "j_sign">>, PyBool(TRUE)>>>>, add |-> <<<<"patellar_instability", 3>>>>],
         [when |-> <<<<<<"exam", "patella_alta">>, PyBool(TRUE)>>>>, add |-> <<<<"patellar_instability", 2>>>>],
         [when |-> <<<<<<"exam", "pf_crepitus">>, PyStr("chondral")>>>>, add |-> <<<<"patellofemoral_oa", 2>>, <<"pfps", 2>>>>],
         [when |-> <<<<<<"exam", "pf_crepitus">>, PyStr("bone")>>>>, add |-> <<<<"patellofemoral_oa", 3>>>>],
         [when |-> <<<<<<"exam", "alignment">>, PyStr("varus")>>>>, add |-> <<<<"tibiofemoral_oa", 3>>>>],
         [when |-> <<<<<<"exam", "alignment">>, PyStr("valgus")>>>>, add |-> <<<<"tibiofemoral_oa", 3>>>>],
         [when |-> <<<<<<"exam", "effusion">>, PyStr("mild")>>, <<<<"duration_class">>, PyStr("acute")>>>>, add |-> <<<<"acl_tear", 1>>, <<"pcl_tear", 1>>, <<"medial_meniscal_tear", 1>>, <<"lateral_meniscal_tear", 1>>>>],
         [when |-> <<<<<<"exam", "effusion">>, PyStr("moderate")>>, <<<<"duration_class">>, PyStr("acute")>>>>, add |-> <<<<"acl_tear", 2>>, <<"pcl_tear", 2>>, <<"medial_meniscal_tear", 2>>, <<"lateral_meniscal_tear", 2>>>>],
         [when |-> <<<<<<"exam", "effusion">>, PyStr("severe")>>, <<<<"duration_class">>, PyStr("acute")>>>>, add |-> <<<<"acl_tear", 3>>, <<"pcl_tear", 2>>, <<"medial_meniscal_tear", 2>>, <<"lateral_meniscal_tear", 2>>>>],
         [when |-> <<<<<<"exam", "effusion">>, PyStr("mild")>>, <<<<"duration_class">>, PyList(<<PyStr("subacute"), PyStr("chronic")>>)>>>>, add |-> <<<<"tibiofemoral_oa", 1>>>>],
         [when |-> <<<<<<"exam", "effusion">>, PyStr("moderate")>>, <<<<"duration_class">>, PyList(<<PyStr("subacute"), PyStr("chronic")>>)>>>>, add |-> <<<<"tibiofemoral_oa", 1>>>>],
         [when |-> <<<<<<"exam", "effusion">>, PyStr("severe")>>, <<<<"duration_class">>, PyList(<<PyStr("subacute"), PyStr("chronic")>>)>>>>, add |-> <<<<"tibiofemoral_oa", 2>>>>],
         [when |-> <<<<<<"exam", "rom_restriction">>, PyBool(TRUE)>>>>, add |-> <<<<"tibiofemoral_oa", 2>>, <<"medial_meniscal_tear", 1>>, <<"lateral_meniscal_tear", 1>>>>],
         [when |-> <<<<<<"exam", "fixed_flexion_deformity">>, PyBool(TRUE)>>>>, add |-> <<<<"tibiofemoral_oa", 2>>>>],
         [when |-> <<<<<<"exam", "quads_tone">>, PyStr("reduced")>>>>, add |-> <<<<"tibiofemoral_oa", 1>>, <<"pfps", 1>>>>],
         [when |-> <<<<<<"exam", "bakers_pseudocyst">>, PyBool(TRUE)>>>>, add |-> <<<<"bakers_cyst", 4>>>>]>>,
      imaging |-> <<
         [when |-> <<<<<<"imaging", "xray_oa_tf">>, PyBool(TRUE)>>>>, add |-> <<<<"tibiofemoral_oa", 6>>>>],
         [when |-> <<<<<<"imaging", "xray_oa_pf">>, PyBool(TRUE)>>>>, add |-> <<<<"patellofemoral_oa", 4>>>>],
         [when |-> <<<<<<"imaging", "malalignment">>, PyStr("varus")>>>>, add |-> <<<<"tibiofemoral_oa", 2>>>>],
         [when |-> <<<<<<"imaging", "malalignment">>, PyStr("valgus")>>>>, add |-> <<<<"tibiofemoral_oa", 2>>>>],
         [when |-> <<<<<<"imaging", "mri_acl">>, PyBool(TRUE)>>>>, add |-> <<<<"acl_tear", 8>>>>],
         [when |-> <<<<<<"imaging", "mri_pcl">>, PyBool(TRUE)>>>>, add |-> <<<<"pcl_tear", 8>>>>],
         [when |-> <<<<<<"imaging", "mri_medial_meniscus">>, PyBool(TRUE)>>>>, add |-> <<<<"medial_meniscal_tear", 8>>>>],
         [when |-> <<<<<<"imaging", "mri_lateral_meniscus">>, PyBool(TRUE)>>>>, add |-> <<<<"lateral_meniscal_tear", 8>>>>]>>]]

KNEE_INJURY_SPEC ==
  [diagnoses |-> <<"acl_tear", "pcl_tear", "mcl_sprain", "lcl_sprain", "medial_meniscal_tear", "lateral_meniscal_tear", "patellar_instability", "pfps", "patellofemoral_oa", "tibiofemoral_oa", "bakers_cyst", "loose_body", "painful_arthroplasty">>,
   ranking |-> [top_k |-> 3, tie_breakers |-> <<"prefer_exam_positive_over_symptom_only", "prefer_mechanism_consistent", "prefer_side_specific_over_general">>, justification |-> [max_reasons_per_dx |-> 4, reason_selection |-> "highest_weighted_features"]],
   output |-> [confidence_bands |-> <<[min |-> 0, max |-> 7, label |-> "low"], [min |-> 8, max |-> 15, label |-> "moderate"], [min |-> 16, max |-> 1000, label |-> "high"]>>,
               safety_net_rules |-> <<[if |-> <<"any_red_flag_triggered">>, message |-> "Urgent same-day assessment recommended."], [if |-> <<"diagnosis_includes:", "painful_arthroplasty">>, message |-> "Consider infection screen (CRP/ESR), targeted imaging, and arthroplasty review."]>>],
   red_flag_logic |-> <<
      [if_all_true |-> <<<<"red_flags", "fever_unwell_hot_joint">>>>, action |-> [route |-> "urgent", diagnosis |-> "septic_arthritis", override_ranking |-> TRUE]],
      [if_all_true |-> <<<<"red_flags", "true_locked_knee">>>>, action |-> [route |-> "urgent", diagnosis |-> "bucket_handle_meniscal_tear", override_ranking |-> TRUE]],
      [if_all_true |-> <<<<"red_flags", "inability_slr_after_eccentric_load">>>>, action |-> [route |-> "urgent", diagnosis |-> "extensor_mechanism_rupture", override_ranking |-> TRUE]]>>,
   scoring |-> [
      mechanism |-> <<
         [when |-> <<<<<<"mechanism">>, PyList(<<PyStr("twisting"), PyStr("pivot")>>)>>>>, add |-> <<<<"acl_tear", 3>>, <<"medial_meniscal_tear", 2>>, <<"lateral_meniscal_tear", 2>>, <<"pcl_tear", 1>>>>],
         [when |-> <<<<<<"mechanism">>, PyList(<<PyStr("direct_blow")>>)>>, <<<<"exam", "alignment">>, PyStr("valgus")>>>>, add |-> <<<<"mcl_sprain", 3>>, <<"medial_meniscal_tear", 1>>>>],
         [when |-> <<<<<<"mechanism">>, PyList(<<PyStr("direct_blow")>>)>>, <<<<"exam", "alignment">>, PyStr("varus")>>>>, add |-> <<<<"lcl_sprain", 3>>, <<"lateral_meniscal_tear", 1>>>>],
         [when |-> <<<<<<"mechanism">>, PyList(<<PyStr("non_contact_jump_land")>>)>>>>, add |-> <<<<"acl_tear", 2>>, <<"patellar_instability", 1>>>>],
         [when |-> <<<<<<"mechanism">>, PyList(<<PyStr("overuse")>>)>>>>, add |-> <<<<"pfps", 2>>, <<"patellofemoral_oa", 1>>, <<"tibiofemoral_oa", 1>>>>],
         [when |-> <<<<<<"mechanism">>, PyList(<<PyStr("post_op")>>)>>>>, add |-> <<<<"painful_arthroplasty", 4>>>>]>>,
      knee_score |-> <<
         [when |-> <<<<<<"knee_score">>, PyStr("present")>>>>, aggregate |-> <<[method |-> "deficit", field |-> "instability", max |-> 25, scale |-> 2, then_add |-> <<<<"acl_tear", <<"round(", "scale*deficit", ")">>>>, <<"patellar_instability", <<"round(", "0.8", "*", "scale*deficit", ")">>>>, <<"pcl_tear", <<"round(", "0.3", "*", "scale*deficit", ")">>>>>>], [method |-> "deficit", field |-> "locking", max |-> 15, scale |-> 3, then_add |-> <<<<"medial_meniscal_tear", <<"round(", "scale*deficit", ")">>>>, <<"lateral_meniscal_tear", <<"round(", "0.9", "*", "scale*deficit", ")">>>>, <<"loose_body", <<"round(", "0.6", "*", "scale*deficit", ")">>>>>>], [method |-> "deficit", field |-> "swelling", max |-> 10, scale |-> 2, then_add |-> <<<<"acl_tear", <<"round(", "scale*deficit", ")">>>>, <<"pcl_tear", <<"round(", "0.5", "*", "scale*deficit", ")">>>>, <<"medial_meniscal_tear", <<"round(", "0.5", "*", "scale*deficit", ")">>>>, <<"lateral_meniscal_tear", <<"round(", "0.5", "*", "scale*deficit", ")">>>>, <<"tibiofemoral_oa", <<"round(", "0.3", "*", "scale*deficit", ")">>>>>>], [method |-> "deficit", field |-> "stair_climbing", max |-> 10, scale |-> 2, then_add |-> <<<<"pfps", <<"round(", "scale*deficit", ")">>>>, <<"patellofemoral_oa", <<"round(", "0.8", "*", "scale*deficit", ")">>>>>>], [method |-> "deficit", field |-> "squatting", max |-> 5, scale |-> 3, then_add |-> <<<<"medial_meniscal_tear", <<"round(", "scale*deficit", ")">>>>, <<"lateral_meniscal_tear", <<"round(", "0.8", "*", "scale*deficit", ")">>>>, <<"pfps", <<"round(", "0.6", "*", "scale*deficit", ")">>>>>>], [method |-> "deficit", field |-> "support", max |-> 5, scale |-> 4, then_add |-> <<<<"acl_tear", <<"round(", "scale*deficit", ")">>>>, <<"pcl_tear", <<"round(", "0.5", "*", "scale*deficit", ")">>>>, <<"mcl_sprain", <<"round(", "0.6", "*", "scale*deficit", ")">>>>, <<"lcl_sprain", <<"round(", "0.6", "*", "scale*deficit", ")">>>>>>], [method |-> "deficit", field |-> "limp", max |-> 5, scale |-> 2, then_add |-> <<<<"tibiofemoral_oa", <<"round(", "scale*deficit", ")">>>>, <<"pfps", <<"round(", "0.6", "*", "scale*deficit", ")">>>>>>], [method |-> "total", scale |-> 1, then_add |-> <<<<"tibiofemoral_oa", <<"round(", "scale*(", "100-total", ")", ")">>>>>>]>>]>>,
      symptoms_from_text |-> <<
         [when |-> <<<<<<"impact_on_activities_text">>, PyStr("mentions_instability")>>>>, add |-> <<<<"acl_tear", 2>>, <<"patellar_instability", 2>>>>],
         [when |-> <<<<<<"injury_mechanism_text">>, PyStr("mentions_locking")>>>>, add |-> <<<<"medial_meniscal_tear", 2>>, <<"lateral_meniscal_tear", 2>>>>]>>,
      exam |-> <<
         [when |-> <<<<<<"exam", "lachman">>, PyStr("yes_soft_endpoint")>>>>, add |-> <<<<"acl_tear", 6>>>>],
         [when |-> <<<<<<"exam", "lachman">>, PyStr("yes_firm_endpoint")>>>>, add |-> <<<<"acl_tear", 3>>>>],
         [when |-> <<<<<<"exam", "pivot_shift">>, PyBool(TRUE)>>>>, add |-> <<<<"acl_tear", 4>>>>],
         [when |-> <<<<<<"exam", "posterior_drawer">>, PyBool(TRUE)>>>>, add |-> <<<<"pcl_tear", 6>>>>],
         [when |-> <<<<<<"exam", "mcmurray_medial">>, PyBool(TRUE)>>>>, add |-> <<<<"medial_meniscal_tear", 4>>>>],
         [when |-> <<<<<<"exam", "mcmurray_lateral">>, PyBool(TRUE)>>>>, add |-> <<<<"lateral_meniscal_tear", 4>>>>],
         [when |-> <<<<<<"exam", "joint_line_tenderness_medial">>, PyBool(TRUE)>>>>, add |-> <<<<"medial_meniscal_tear", 2>>>>],
         [when |-> <<<<<<"exam", "joint_line_tenderness_lateral">>, PyBool(TRUE)>>>>, add |-> <<<<"lateral_meniscal_tear", 2>>>>],
         [when |-> <<<<<<"exam", "mcl_laxity_grade">>, PyStr("grade1")>>>>, add |-> <<<<"mcl_sprain", 2>>>>],
         [when |-> <<<<<<"exam", "mcl_laxity_grade">>, PyStr("grade2")>>>>, add |-> <<<<"mcl_sprain", 3>>>>],
         [when |-> <<<<<<"exam", "mcl_laxity_grade">>, PyStr("grade3")>>>>, add |-> <<<<"mcl_sprain", 4>>>>],
         [when |-> <<<<<<"exam", "lcl_laxity_grade">>, PyStr("grade1")>>>>, add |-> <<<<"lcl_sprain", 2>>>>],
         [when |-> <<<<<<"exam", "lcl_laxity_grade">>, PyStr("grade2")>>>>, add |-> <<<<"lcl_sprain", 3>>>>],
         [when |-> <<<<<<"exam", "lcl_laxity_grade">>, PyStr("grade3")>>>>, add |-> <<<<"lcl_sprain", 4>>>>],
         [when |-> <<<<<<"exam", "pf_compression_clarke">>, PyBool(TRUE)>>>>, add |-> <<<<"patellofemoral_oa", 3>>, <<"pfps", 2>>>>],
         [when |-> <<<<<<"exam", "patellar_apprehension">>, PyBool(TRUE)>>>>, add |-> <<<<"patellar_instability", 4>>>>],
         [when |-> <<<<<<"exam", "j_sign">>, PyBool(TRUE)>>>>, add |-> <<<<"patellar_instability", 3>>>>],
         [when |-> <<<<<<"exam", "patella_alta">>, PyBool(TRUE)>>>>, add |-> <<<<"patellar_instability", 2>>>>],
         [when |-> <<<<<<"exam", "pf_crepitus">>, PyStr("chondral")>>>>, add |-> <<<<"patellofemoral_oa", 2>>, <<"pfps", 2>>>>],
         [when |-> <<<<<<"exam", "pf_crepitus">>, PyStr("bone")>>>>, add |-> <<<<"patellofemoral_oa", 3>>>>],
         [when |-> <<<<<<"exam", "alignment">>, PyStr("varus")>>>>, add |-> <<<<"tibiofemoral_oa", 3>>>>],
         [when |-> <<<<<<"exam", "alignment">>, PyStr("valgus")>>>>, add |-> <<<<"tibiofemoral_oa", 3>>>>],
         [when |-> <<<<<<"exam", "effusion">>, PyStr("mild")>>>>, add |-> <<<<"acl_tear", 1>>, <<"pcl_tear", 1>>, <<"medial_meniscal_tear", 1>>, <<"lateral_meniscal_tear", 1>>>>],
         [when |-> <<<<<<"exam", "effusion">>, PyStr("moderate")>>>>, add |-> <<<<"acl_tear", 2>>, <<"pcl_tear", 2>>, <<"medial_meniscal_tear", 2>>, <<"lateral_meniscal_tear", 2>>>>],
         [when |-> <<<<<<"exam", "effusion">>, PyStr("severe")>>>>, add |-> <<<<"acl_tear", 3>>, <<"pcl_tear", 2>>, <<"medial_meniscal_tear", 2>>, <<"lateral_meniscal_tear", 2>>>>],
         [when |-> <<<<<<"exam", "rom_restriction">>, PyBool(TRUE)>>>>, add |-> <<<<"tibiofemoral_oa", 1>>, <<"medial_meniscal_tear", 1>>, <<"lateral_meniscal_tear", 1>>>>],
         [when |-> <<<<<<"exam", "fixed_flexion_deformity">>, PyBool(TRUE)>>>>, add |-> <<<<"tibiofemoral_oa", 2>>>>],
         [when |-> <<<<<<"exam", "quads_tone">>, PyStr("reduced")>>>>, add |-> <<<<"tibiofemoral_oa", 1>>, <<"pfps", 1>>>>],
         [when |-> <<<<<<"exam", "bakers_pseudocyst">>, PyBool(TRUE)>>>>, add |-> <<<<"bakers_cyst", 4>>>>]>>,
      imaging |-> <<
         [when |-> <<<<<<"imaging", "xray_oa_tf">>, PyBool(TRUE)>>>>, add |-> <<<<"tibiofemoral_oa", 6>>>>],
         [when |-> <<<<<<"imaging", "xray_oa_pf">>, PyBool(TRUE)>>>>, add |-> <<<<"patellofemoral_oa", 4>>>>],
         [when |-> <<<<<<"imaging", "malalignment">>, PyStr("varus")>>>>, add |-> <<<<"tibiofemoral_oa", 2>>>>],
         [when |-> <<<<<<"imaging", "malalignment">>, PyStr("valgus")>>>>, add |-> <<<<"tibiofemoral_oa", 2>>>>],
         [when |-> <<<<<<"imaging", "mri_acl">>, PyBool(TRUE)>>>>, add |-> <<<<"acl_tear", 8>>>>],
         [when |-> <<<<<<"imaging", "mri_pcl">>, PyBool(TRUE)>>>>, add |-> <<<<"pcl_tear", 8>>>>],
         [when |-> <<<<<<"imaging", "mri_medial_meniscus">>, PyBool(TRUE)>>>>, add |-> <<<<"medial_meniscal_tear", 8>>>>],
         [when |-> <<<<<<"imaging", "mri_lateral_meniscus">>, PyBool(TRUE)>>>>, add |-> <<<<"lateral_meniscal_tear", 8>>>>]>>]]

(* ------------------------------------------------------------------ *)
(* add_points                                                         *)
(* ------------------------------------------------------------------ *)
(* d.get(field, default) on a spec object *)
Get(obj, field, default) == IF field \in DOMAIN obj THEN obj[field] ELSE default

(* variant: scores[dx] = pts, the points replace the score instead of adding to it *)
AddEntryOverwrite(st, dx, pts, label) ==
  [scores  |-> DictPut(st.scores, dx, pts),
   reasons |-> DictPut(st.reasons, dx, Append(DictGet(st.reasons, dx, <<>>), <<label, pts>>))]

(* variant: the new reason is put in front of the earlier ones *)
AddEntryPrepend(st, dx, pts, label) ==
  [scores  |-> DictPut(st.scores, dx, DictGet(st.scores, dx, 0) + pts),
   reasons |-> DictPut(st.reasons, dx, <<<<label, pts>>>> \o DictGet(st.reasons, dx, <<>>))]

(* lines 66-67 (and the same two statements in apply_aggregate):
   scores[dx] = scores.get(dx, 0) + pts; reasons.setdefault(dx, []).append(...) *)
AddEntry(st, dx, pts, label) ==
  [scores  |-> DictPut(st.scores, dx, DictGet(st.scores, dx, 0) + pts),
   reasons |-> DictPut(st.reasons, dx, Append(DictGet(st.reasons, dx, <<>>), <<label, pts>>))]

RECURSIVE AddPointsFrom(_, _, _, _)
AddPointsFrom(st, addmap, reason_label, i) ==
  IF i > Len(addmap) THEN st
  ELSE LET st1 == AddEntry(st, addmap[i][1], addmap[i][2], reason_label)
       IN  IF st1 = st
           THEN AddPointsFrom(st, addmap, reason_label, i + 1)
           ELSE AddPointsFrom(st1, addmap, reason_label, i + 1)

add_points(st, addmap, reason_label) == AddPointsFrom(st, addmap, reason_label, 1)

(* f"{block_name}:{when}" *)
RuleLabel(block_name, when) == [text |-> <<block_name, ":">>, when |-> when]

(* a fixed label of an aggregate method *)
AggLabel(text) == [text |-> text, when |-> <<>>]

(* ------------------------------------------------------------------ *)
(* apply_aggregate                                                    *)
(* ------------------------------------------------------------------ *)
(* mapping.get(v, 0) *)
MapGet(mapping, val) ==
  IF val.t = "str" /\ DictHas(mapping, val.v) THEN DictGet(mapping, val.v, 0) ELSE 0

(* x or {} *)
OrEmptyDict(x) == IF Truthy(x) THEN x ELSE EmptyDict

(* x or 0 *)
OrZero(x) == IF Truthy(x) THEN NumVal(x) ELSE 0

RECURSIVE SumMapped(_, _, _)
SumMapped(func, keys, mapping) ==
  IF keys = {} THEN 0
  ELSE LET k == CHOOSE k \in keys : TRUE
       IN  MapGet(mapping, func.v[k]) + SumMapped(func, keys \ {k}, mapping)

(* func.get(item, 'none') *)
FuncGet(func, item) == IF item \in DOMAIN func.v THEN func.v[item] ELSE PyStr("none")

RECURSIVE SumItems(_, _, _, _)
SumItems(func, items, mapping, i) ==
  IF i > Len(items) THEN 0
  ELSE MapGet(mapping, FuncGet(func, items[i])) + SumItems(func, items, mapping, i + 1)

RECURSIVE SumValues(_, _)
SumValues(d, keys) ==
  IF keys = {} THEN 0
  ELSE LET k == CHOOSE k \in keys : TRUE
       IN  NumVal(d.v[k]) + SumValues(d, keys \ {k})

(* lines 80-86 / 92-98: for dx, expr in then_add.items(), floor(total/N) *)
RECURSIVE FloorThenAdd(_, _, _, _, _)
FloorThenAdd(st, then_add, total, text, i) ==
  IF i > Len(then_add) THEN st
  ELSE LET dx   == then_add[i][1]
           expr == then_add[i][2]
           pts  == total \div ParseInt(SubSeq(expr, 3, Len(expr) - 1)[1])
           st1  == IF StartsWith(expr, <<"floor(", "total/">>) /\ pts # 0
                   THEN AddEntry(st, dx, pts, AggLabel(text))
                   ELSE st
       IN  IF st1 = st   \* nothing added for this target
           THEN FloorThenAdd(st, then_add, total, text, i + 1)
           ELSE FloorThenAdd(st1, then_add, total, text, i + 1)

(* variant: the multiplier of the expression is dropped, every target gets
   the scaled deficit *)
DeficitPointsNoMultiplier(expr, scaled_deficit) == scaled_deficit

(* lines 111-121: the points of one target of a deficit rule *)
DeficitPoints(expr, scaled_deficit) ==
  LET expr_clean == SubSeq(expr, 2, Len(expr) - 1)
  IN  IF \E j \in 1..Len(expr_clean) : expr_clean[j] = "scale*deficit"
      THEN LET multiplier == IF expr_clean # <<"scale*deficit">>
                             THEN ParseTenths(expr_clean[1])
                             ELSE 10
           IN  Round(multiplier * scaled_deficit, 10)
      ELSE scaled_deficit

(* variant: the points are added whenever they are not zero, as the sum
   methods do, so a negative deficit lowers the score *)
RECURSIVE DeficitThenAddNonZero(_, _, _, _, _)
DeficitThenAddNonZero(st, then_add, scaled_deficit, field, i) ==
  IF i > Len(then_add) THEN st
  ELSE LET dx   == then_add[i][1]
           expr == then_add[i][2]
           pts  == DeficitPoints(expr, scaled_deficit)
           st1  == IF StartsWith(expr, <<"round(">>) /\ pts # 0
                   THEN AddEntry(st, dx, pts, AggLabel(<<field, " deficit scoring">>))
                   ELSE st
       IN  IF st1 = st
           THEN DeficitThenAddNonZero(st, then_add, scaled_deficit, field, i + 1)
           ELSE DeficitThenAddNonZero(st1, then_add, scaled_deficit, field, i + 1)

(* lines 110-125 *)
RECURSIVE DeficitThenAdd(_, _, _, _, _)
DeficitThenAdd(st, then_add, scaled_deficit, field, i) ==
  IF i > Len(then_add) THEN st
  ELSE LET dx   == then_add[i][1]
           expr == then_add[i][2]
           pts  == DeficitPoints(expr, scaled_deficit)
           st1  == IF StartsWith(expr, <<"round(">>) /\ pts > 0
                   THEN AddEntry(st, dx, pts, AggLabel(<<field, " deficit scoring">>))
                   ELSE st
       IN  IF st1 = st   \* nothing added for this target
           THEN DeficitThenAdd(st, then_add, scaled_deficit, field, i + 1)
           ELSE DeficitThenAdd(st1, then_add, scaled_deficit, field, i + 1)

(* variant: a sub-score the record does not give counts as the best value,
   so it has no deficit *)
ScaledDeficitSkipMissing(agg, input_obj) ==
  LET max_val     == Get(agg, "max", 0)
      scale       == Get(agg, "scale", 10)
      val         == get_by_path(input_obj, <<"knee_score", agg.field>>)
      field_value == IF Truthy(val) THEN NumVal(val) ELSE max_val
  IN  Round(scale * (max_val - field_value), 10)

(* lines 106-108 *)
ScaledDeficit(agg, input_obj) ==
  LET max_val     == Get(agg, "max", 0)
      scale       == Get(agg, "scale", 10)
      field_value == OrZero(get_by_path(input_obj, <<"knee_score", agg.field>>))
      deficit     == max_val - field_value
  IN  Round(scale * deficit, 10)

(* lines 133-141 *)
RECURSIVE TotalThenAdd(_, _, _, _, _)
TotalThenAdd(st, then_add, total, scale, i) ==
  IF i > Len(then_add) THEN st
  ELSE LET dx         == then_add[i][1]
           expr       == then_add[i][2]
           expr_clean == SubSeq(expr, 2, Len(expr) - 1)
           pts        == Round(scale * (100 - total), 10)
           st1        == IF /\ StartsWith(expr, <<"round(", "scale*(">>)
                            /\ \E j \in 1..Len(expr_clean) : expr_clean[j] = "100-total"
                            /\ pts > 0
                         THEN AddEntry(st, dx, pts, AggLabel(<<"Total knee score aggregate">>))
                         ELSE st
       IN  IF st1 = st   \* nothing added for this target
           THEN TotalThenAdd(st, then_add, total, scale, i + 1)
           ELSE TotalThenAdd(st1, then_add, total, scale, i + 1)

(* a value that mapping.get cannot hash *)
Unhashable(x) == x.t \in {"list", "dict"}

(* lines 78-79: func.values() of a truthy oa_index.function that is no dict
   (AttributeError), mapping.get of an unhashable value (TypeError) *)
SumFunctionRaises(input_obj) ==
  LET func == get_by_path(input_obj, <<"oa_index", "function">>)
  IN  Truthy(func) /\ (IF func.t # "dict" THEN TRUE
                       ELSE \E k \in DOMAIN func.v : Unhashable(func.v[k]))

(* lines 90-91: func.get of a truthy oa_index.function that is no dict,
   mapping.get of an unhashable item value *)
SumPfLoadedRaises(agg, input_obj) ==
  LET func  == get_by_path(input_obj, <<"oa_index", "function">>)
      items == Get(agg, "items", <<>>)
  IN  Truthy(func) /\ (IF func.t # "dict" THEN TRUE
                       ELSE \E i \in 1..Len(items) :
                              items[i] \in DOMAIN func.v /\ Unhashable(func.v[items[i]]))

(* line 107: max_val - field_value with a field value that is no number (TypeError) *)
DeficitRaises(agg, input_obj) ==
  LET val == get_by_path(input_obj, <<"knee_score", agg.field>>)
  IN  Truthy(val) /\ ~IsNumber(val)

(* line 130: knee_score.values() of a truthy knee_score that is no dict,
   sum() over a value that is no number *)
TotalRaises(input_obj) ==
  LET knee_score == get_by_path(input_obj, <<"knee_score">>)
  IN  Truthy(knee_score) /\ (IF knee_score.t # "dict" THEN TRUE
                             ELSE \E k \in DOMAIN knee_score.v : ~IsNumber(knee_score.v[k]))

(* one entry of rule['aggregate'] ends in an exception *)
AggRaises(agg, input_obj) ==
  LET method == Get(agg, "method", "")
  IN  CASE method = "sum_function_items"  -> SumFunctionRaises(input_obj)
        [] method = "sum_pf_loaded_items" -> SumPfLoadedRaises(agg, input_obj)
        [] method = "deficit"             -> DeficitRaises(agg, input_obj)
        [] method = "total"               -> TotalRaises(input_obj)
        [] OTHER -> FALSE

(* lines 74-141: one entry of rule['aggregate'] *)
ApplyAgg(agg, input_obj, st) ==
  LET method   == Get(agg, "method", "")
      mapping  == Get(agg, "map", <<>>)
      then_add == Get(agg, "then_add", <<>>)
      func     == OrEmptyDict(get_by_path(input_obj, <<"oa_index", "function">>))
  IN  CASE method = "sum_function_items" ->
             FloorThenAdd(st, then_add, SumMapped(func, DOMAIN func.v, mapping),
                          <<"Function difficulty aggregate">>, 1)
        [] method = "sum_pf_loaded_items" ->
             FloorThenAdd(st, then_add, SumItems(func, Get(agg, "items", <<>>), mapping, 1),
                          <<"PF-loaded tasks aggregate">>, 1)
        [] method = "deficit" ->
             DeficitThenAdd(st, then_add, ScaledDeficit(agg, input_obj), agg.field, 1)
        [] method = "total" ->
             LET knee_score == OrEmptyDict(get_by_path(input_obj, <<"knee_score">>))
             IN  TotalThenAdd(st, then_add, SumValues(knee_score, DOMAIN knee_score.v),
                              Get(agg, "scale", 1), 1)
        [] OTHER -> st

RECURSIVE ApplyAggFrom(_, _, _, _)
ApplyAggFrom(aggs, input_obj, st, i) ==
  IF i > Len(aggs) THEN st
  ELSE LET st1 == ApplyAgg(aggs[i], input_obj, st)
       IN  IF st1 = st   \* the method added nothing
           THEN ApplyAggFrom(aggs, input_obj, st, i + 1)
           ELSE ApplyAggFrom(aggs, input_obj, st1, i + 1)

apply_aggregate(rule, input_obj, st) ==
  ApplyAggFrom(Get(rule, "aggregate", <<>>), input_obj, st, 1)

(* ------------------------------------------------------------------ *)
(* run_questionnaire_engine                                           *)
(* ------------------------------------------------------------------ *)
AllTruthy(input_obj, if_all) ==
  \A i \in 1..Len(if_all) : Truthy(get_by_path(input_obj, if_all[i]))

(* variant: an entry fires only when its action sets override_ranking *)
FiringRedFlagsIfOverride(spec, input_obj) ==
  LET rfs == Get(spec, "red_flag_logic", <<>>)
  IN  {i \in 1..Len(rfs) : /\ Get(rfs[i].action, "override_ranking", FALSE)
                           /\ AllTruthy(input_obj, Get(rfs[i], "if_all_true", <<>>))}

(* lines 156-158: the entries of red_flag_logic that fire *)
FiringRedFlags(spec, input_obj) ==
  LET rfs == Get(spec, "red_flag_logic", <<>>)
  IN  {i \in 1..Len(rfs) : AllTruthy(input_obj, Get(rfs[i], "if_all_true", <<>>))}

(* variant: the loop keeps the last entry that fires *)
LastFiring(firing) == CHOOSE i \in firing : \A j \in firing : i >= j

(* lines 156-160: the loop returns at the first entry that fires *)
FirstFiring(firing) == CHOOSE i \in firing : \A j \in firing : i <= j

(* lines 159-165 *)
UrgentResult(rf) ==
  [route                 |-> "urgent",
   urgent_reason         |-> Get(rf, "if_all_true", <<>>),
   provisional_diagnosis |-> IF "diagnosis" \in DOMAIN rf.action
                             THEN PyStr(rf.action.diagnosis) ELSE None,
   message               |-> "Urgent same-day assessment recommended."]

(* line 176 *)
BlockOrder ==
  <<"mechanism", "onset_mechanism", "symptoms", "oa_index", "knee_score",
    "symptoms_from_text", "exam", "imaging">>

(* lines 181-182: the guard of the aggregate rules *)
AggregateGuard(input_obj) ==
  \/ get_by_path(input_obj, <<"oa_index">>).t # "none"
  \/ get_by_path(input_obj, <<"knee_score">>).t # "none"

(* an aggregate rule of some block is applied and raises: the call ends
   there, whatever the other rules would add *)
EngineRaises(spec, input_obj) ==
  /\ AggregateGuard(input_obj)
  /\ \E b \in 1..Len(BlockOrder) :
        LET rules == Get(Get(spec, "scoring", <<>>), BlockOrder[b], <<>>)
        IN  \E r \in 1..Len(rules) :
               /\ "aggregate" \in DOMAIN rules[r]
               /\ \E a \in 1..Len(rules[r].aggregate) :
                     AggRaises(rules[r].aggregate[a], input_obj)

(* lines 168-170 *)
InitScores(dx_codes) ==
  [scores  |-> [i \in 1..Len(dx_codes) |-> <<dx_codes[i], 0>>],
   reasons |-> <<>>]

(* lines 179-191: one rule of a block *)
ApplyRule(spec, input_obj, st, block_name, rule) ==
  LET when     == Get(rule, "when", <<>>)
      dx_codes == spec.diagnoses
  IN  IF "aggregate" \in DOMAIN rule
      THEN IF AggregateGuard(input_obj)
           THEN apply_aggregate(rule, input_obj, st)
           ELSE st
      ELSE IF condition_match(input_obj, when)
           THEN LET st1 == IF "add" \in DOMAIN rule
                           THEN add_points(st, rule.add, RuleLabel(block_name, when))
                           ELSE st
                IN  IF "add_all" \in DOMAIN rule
                    THEN add_points(st1, [i \in 1..Len(dx_codes) |-> <<dx_codes[i], rule.add_all>>],
                                    RuleLabel(block_name, when))
                    ELSE st1
           ELSE st

RECURSIVE ApplyRulesFrom(_, _, _, _, _, _)
ApplyRulesFrom(spec, input_obj, st, block_name, rules, i) ==
  IF i > Len(rules) THEN st
  ELSE LET st1 == ApplyRule(spec, input_obj, st, block_name, rules[i])
       IN  IF st1 = st   \* the rule added nothing
           THEN ApplyRulesFrom(spec, input_obj, st, block_name, rules, i + 1)
           ELSE ApplyRulesFrom(spec, input_obj, st1, block_name, rules, i + 1)

RECURSIVE ApplyBlocksFrom(_, _, _, _)
ApplyBlocksFrom(spec, input_obj, st, b) ==
  IF b > Len(BlockOrder) THEN st
  ELSE LET st1 == ApplyRulesFrom(spec, input_obj, st, BlockOrder[b],
                                 Get(Get(spec, "scoring", <<>>), BlockOrder[b], <<>>), 1)
       IN  IF st1 = st   \* the block added nothing
           THEN ApplyBlocksFrom(spec, input_obj, st, b + 1)
           ELSE ApplyBlocksFrom(spec, input_obj, st1, b + 1)

(* lines 167-191: scores and reasons when scoring ends *)
Score(spec, input_obj) == ApplyBlocksFrom(spec, input_obj, InitScores(spec.diagnoses), 1)

(* lines 176-177: the rules in the order in which the two loops visit them *)
RECURSIVE RulesInOrderFrom(_, _)
RulesInOrderFrom(spec, b) ==
  IF b > Len(BlockOrder) THEN <<>>
  ELSE LET rules == Get(Get(spec, "scoring", <<>>), BlockOrder[b], <<>>)
       IN  [r \in 1..Len(rules) |-> [block_name |-> BlockOrder[b], rule |-> rules[r]]]
             \o RulesInOrderFrom(spec, b + 1)

(* lines 167-191: scores and reasons before the first rule and after each rule *)
RECURSIVE ScoringStepsFrom(_, _, _, _, _)
ScoringStepsFrom(spec, input_obj, st, todo, i) ==
  IF i > Len(todo) THEN <<st>>
  ELSE LET st1 == ApplyRule(spec, input_obj, st, todo[i].block_name, todo[i].rule)
       IN  IF st1 = st   \* the rule added nothing
           THEN <<st>> \o ScoringStepsFrom(spec, input_obj, st, todo, i + 1)
           ELSE <<st>> \o ScoringStepsFrom(spec, input_obj, st1, todo, i + 1)

ScoringSteps(spec, input_obj) ==
  ScoringStepsFrom(spec, input_obj, InitScores(spec.diagnoses), RulesInOrderFrom(spec, 1), 1)

(* variant: an unstable sort, a later item goes before the earlier items of equal score *)
InsertDescUnstable(sorted, x) ==
  LET p == Cardinality({i \in 1..Len(sorted) : sorted[i][2] > x[2]})
  IN  SubSeq(sorted, 1, p) \o <<x>> \o SubSeq(sorted, p + 1, Len(sorted))

(* sorted(pairs, key=lambda kv: kv[1], reverse=True): stable, descending *)
InsertDesc(sorted, x) ==
  LET p == Cardinality({i \in 1..Len(sorted) : sorted[i][2] >= x[2]})
  IN  SubSeq(sorted, 1, p) \o <<x>> \o SubSeq(sorted, p + 1, Len(sorted))

RECURSIVE SortedDescFrom(_, _, _)
SortedDescFrom(acc, pairs, i) ==
  IF i > Len(pairs) THEN acc
  ELSE SortedDescFrom(InsertDesc(acc, pairs[i]), pairs, i + 1)

SortedDesc(pairs) == SortedDescFrom(<<>>, pairs, 1)

(* variant: the slice is not taken *)
SliceAll(s, n) == s

(* s[:n] *)
Slice(s, n) ==
  IF n >= 0 THEN SubSeq(s, 1, IF n < Len(s) THEN n ELSE Len(s))
  ELSE SubSeq(s, 1, IF Len(s) + n > 0 THEN Len(s) + n ELSE 0)

(* line 195 *)
TopK(spec) == Get(Get(spec, "ranking", <<>>), "top_k", 3)

(* line 226 *)
MaxReasons(spec) ==
  Get(Get(Get(spec, "ranking", <<>>), "justification", <<>>), "max_reasons_per_dx", 4)

(* variant: a band's max is exclusive, min <= score < max *)
bandMaxExclusive(spec, score) ==
  LET bands == Get(Get(spec, "output", <<>>), "confidence_bands", <<>>)
      hits  == {i \in 1..Len(bands) : bands[i].min <= score /\ score < bands[i].max}
  IN  IF hits = {} THEN "unknown"
      ELSE bands[CHOOSE i \in hits : \A j \in hits : i <= j].label

(* variant: the last band that contains the score gives the label *)
bandLastMatch(spec, score) ==
  LET bands == Get(Get(spec, "output", <<>>), "confidence_bands", <<>>)
      hits  == {i \in 1..Len(bands) : bands[i].min <= score /\ score <= bands[i].max}
  IN  IF hits = {} THEN "unknown"
      ELSE bands[CHOOSE i \in hits : \A j \in hits : i >= j].label

(* lines 198-203 *)
band(spec, score) ==
  LET bands == Get(Get(spec, "output", <<>>), "confidence_bands", <<>>)
      hits  == {i \in 1..Len(bands) : bands[i].min <= score /\ score <= bands[i].max}
  IN  IF hits = {} THEN "unknown"
      ELSE bands[CHOOSE i \in hits : \A j \in hits : i <= j].label

(* line 207 *)
SafetyNetRules(spec) == Get(Get(spec, "output", <<>>), "safety_net_rules", <<>>)

(* lines 208-211 *)
CanonicalRedFlagPaths ==
  <<<<"red_flags", "fever_unwell_hot_joint">>,
    <<"red_flags", "true_locked_knee">>,
    <<"red_flags", "inability_slr_after_eccentric_load">>>>

(* variant: a canonical path counts as soon as the record holds a value there *)
any_red_flagIfPresent(input_obj) ==
  \E i \in 1..Len(CanonicalRedFlagPaths) :
     get_by_path(input_obj, CanonicalRedFlagPaths[i]).t # "none"

any_red_flag(input_obj) ==
  \E i \in 1..Len(CanonicalRedFlagPaths) :
     Truthy(get_by_path(input_obj, CanonicalRedFlagPaths[i]))

(* lines 213-216 *)
RECURSIVE AnyRedFlagMsgs(_, _, _, _)
AnyRedFlagMsgs(msgs, sn_rules, flagged, i) ==
  IF i > Len(sn_rules) THEN msgs
  ELSE AnyRedFlagMsgs(
         IF Get(sn_rules[i], "if", <<"">>) = <<"any_red_flag_triggered">> /\ flagged
         THEN Append(msgs, sn_rules[i].message) ELSE msgs,
         sn_rules, flagged, i + 1)

(* lines 237-241 *)
RECURSIVE DxMsgs(_, _, _, _)
DxMsgs(msgs, sn_rules, dx, i) ==
  IF i > Len(sn_rules) THEN msgs
  ELSE LET cond == Get(sn_rules[i], "if", <<"">>)
           add  == /\ StartsWith(cond, <<"diagnosis_includes:">>)
                   /\ dx = (IF Len(cond) >= 2 THEN cond[2] ELSE "")
                   /\ ~ \E j \in 1..Len(msgs) : msgs[j] = sn_rules[i].message
       IN  DxMsgs(IF add THEN Append(msgs, sn_rules[i].message) ELSE msgs, sn_rules, dx, i + 1)

(* line 227: f"{lbl} (+{pts})" *)
KeyDriver(reason) == [label |-> reason[1], plus |-> reason[2]]

(* variant: the first max_reasons reasons in the order they were logged *)
KeyDriversAsLogged(spec, reasons, dx) ==
  LET rlist == Slice(DictGet(reasons, dx, <<>>), MaxReasons(spec))
  IN  [i \in 1..Len(rlist) |-> KeyDriver(rlist[i])]

(* lines 225-227 *)
KeyDrivers(spec, reasons, dx) ==
  LET rlist == Slice(SortedDesc(DictGet(reasons, dx, <<>>)), MaxReasons(spec))
  IN  [i \in 1..Len(rlist) |-> KeyDriver(rlist[i])]

(* variant: no diagnosis is skipped *)
SkipNoDx(sc) == FALSE

(* lines 221-222: if sc == 0: continue *)
SkipDx(sc) == sc = 0

(* lines 219-241: acc = [results, safety_msgs] *)
RECURSIVE BuildResults(_, _, _, _, _)
BuildResults(spec, st, acc, top, i) ==
  IF i > Len(top) THEN acc
  ELSE LET dx == top[i][1]
           sc == top[i][2]
       IN  IF SkipDx(sc) THEN BuildResults(spec, st, acc, top, i + 1)
           ELSE BuildResults(spec, st,
                  [results     |-> Append(acc.results,
                                     [diagnosis_code  |-> dx,
                                      score           |-> sc,
                                      confidence_band |-> band(spec, sc),
                                      key_drivers     |-> KeyDrivers(spec, st.reasons, dx)]),
                   safety_msgs |-> DxMsgs(acc.safety_msgs, SafetyNetRules(spec), dx, 1)],
                  top, i + 1)

(* lines 193-247 *)
RoutineResult(spec, input_obj, st) ==
  LET ranked == SortedDesc(st.scores)
      msgs0  == AnyRedFlagMsgs(<<>>, SafetyNetRules(spec), any_red_flag(input_obj), 1)
      built  == BuildResults(spec, st, [results |-> <<>>, safety_msgs |-> msgs0],
                             Slice(ranked, TopK(spec)), 1)
  IN  [route |-> "routine", top |-> built.results, safety_net |-> built.safety_msgs]

(* the call ends in an exception instead of a return value *)
Raised == [raised |-> "Exception"]

(* the return value with the scores and reasons the call built *)
run_questionnaire_engine(spec, input_obj) ==
  LET firing == FiringRedFlags(spec, input_obj)
  IN  IF firing # {}
      THEN [result  |-> UrgentResult(spec.red_flag_logic[FirstFiring(firing)]),
            scores  |-> <<>>,
            reasons |-> <<>>]
      ELSE IF EngineRaises(spec, input_obj)
      THEN [result |-> Raised, scores |-> <<>>, reasons |-> <<>>]
      ELSE LET st == Score(spec, input_obj)
           IN  [result  |-> RoutineResult(spec, input_obj, st),
                scores  |-> st.scores,
                reasons |-> st.reasons]

(* ------------------------------------------------------------------ *)
(* Specifications and records the engine is run on                    *)
(* ------------------------------------------------------------------ *)
MaxTopK == 2

MaxFacts == 2

MaxPending == 1

(* a small specification whose first red-flag entry needs two paths; it has
   no ranking section (top_k and max_reasons_per_dx take their defaults) *)
TEST_SPEC_FLAGS ==
  [diagnoses |-> <<"dx_a", "dx_b", "dx_c", "dx_d", "dx_e">>,
   output |-> [confidence_bands |-> <<[min |-> 0, max |-> 3, label |-> "low"],
                                      [min |-> 5, max |-> 9, label |-> "high"]>>],
   red_flag_logic |-> <<
      [if_all_true |-> <<<<"red_flags", "fever_unwell_hot_joint">>, <<"red_flags", "true_locked_knee">>>>,
       action |-> [route |-> "urgent", diagnosis |-> "septic_locked_knee"]],
      [if_all_true |-> <<<<"red_flags", "true_locked_knee">>>>,
       action |-> [route |-> "urgent", diagnosis |-> "bucket_handle_meniscal_tear"]]>>,
   scoring |-> [
      mechanism |-> <<
         [when |-> <<<<<<"mechanism">>, PyList(<<PyStr("twisting"), PyStr("pivot")>>)>>>>, add |-> <<<<"dx_b", 2>>, <<"dx_c", 2>>, <<"dx_e", 1>>>>],
         [when |-> <<<<<<"patient", "age_years">>, PyStr(">=45")>>>>, add |-> <<<<"dx_d", 2>>, <<"dx_a", 1>>>>]>>,
      exam |-> <<
         [when |-> <<<<<<"exam", "lachman">>, PyStr("yes_soft_endpoint")>>>>, add |-> <<<<"dx_d", 2>>, <<"dx_b", 2>>>>],
         [when |-> <<<<<<"oa_index", "global_pain">>, PyStr("moderate")>>>>, add_all |-> 1]>>]]

(* the same scoring rules, no red-flag logic, and ranking.top_k = k *)
TestSpecTopK(k) ==
  [diagnoses |-> TEST_SPEC_FLAGS.diagnoses,
   ranking   |-> [top_k |-> k],
   output    |-> TEST_SPEC_FLAGS.output,
   scoring   |-> TEST_SPEC_FLAGS.scoring]

(* a specification document with the three defects a loader could reject: an
   add map and a then_add map that name codes missing from diagnoses, an
   aggregate method the engine does not know, and a then_add formula that
   starts with none of the supported patterns. Its bands overlap on 4..5 and
   end at 9, it repeats both safety-net rules, and it has no red_flag_logic. *)
TEST_SPEC_MALFORMED ==
  [diagnoses |-> <<"dx_a", "dx_b">>,
   output |-> [confidence_bands |-> <<[min |-> 0, max |-> 5, label |-> "low"],
                                      [min |-> 4, max |-> 9, label |-> "moderate"]>>,
               safety_net_rules |-> <<
                  [if |-> <<"any_red_flag_triggered">>, message |-> "Urgent same-day assessment recommended."],
                  [if |-> <<"any_red_flag_triggered">>, message |-> "Urgent same-day assessment recommended."],
                  [if |-> <<"diagnosis_includes:", "dx_a">>, message |-> "Review dx_a."],
                  [if |-> <<"diagnosis_includes:", "dx_a">>, message |-> "Review dx_a."]>>],
   scoring |-> [
      mechanism |-> <<
         [when |-> <<<<<<"mechanism">>, PyList(<<PyStr("twisting"), PyStr("pivot")>>)>>>>,
          add |-> <<<<"dx_a", 4>>, <<"dx_undefined", 10>>>>]>>,
      knee_score |-> <<
         [when |-> <<<<<<"knee_score">>, PyStr("present")>>>>,
          aggregate |-> <<
            [method |-> "mean_items",
             then_add |-> <<<<"dx_b", <<"round(", "scale*deficit", ")">>>>>>],
            [method |-> "deficit", field |-> "instability", max |-> 25, scale |-> 2,
             then_add |-> <<<<"dx_b", <<"ceil(", "scale*deficit", ")">>>>,
                            <<"dx_unlisted", <<"round(", "scale*deficit", ")">>>>>>]>>]>>,
      exam |-> <<
         [when |-> <<<<<<"exam", "lachman">>, PyStr("yes_soft_endpoint")>>>>, add |-> <<<<"dx_a", 6>>>>]>>]]

(* lines 250-253: json.load(f); the parsed document is returned as it is,
   nothing in it is checked *)
load_questionnaire_spec(document) == document

(* a small specification with one rule for each comparison operator of
   condition_match, all on the patient's age *)
TEST_SPEC_COMPARATORS ==
  [diagnoses |-> <<"dx_ge", "dx_le", "dx_gt", "dx_lt", "dx_eq">>,
   output |-> [confidence_bands |-> <<[min |-> 0, max |-> 9, label |-> "low"]>>],
   ranking |-> [top_k |-> 5],
   scoring |-> [
      mechanism |-> <<
         [when |-> <<<<<<"patient", "age_years">>, PyStr(">=45")>>>>, add |-> <<<<"dx_ge", 1>>>>],
         [when |-> <<<<<<"patient", "age_years">>, PyStr("<=45")>>>>, add |-> <<<<"dx_le", 1>>>>],
         [when |-> <<<<<<"patient", "age_years">>, PyStr(">45")>>>>, add |-> <<<<"dx_gt", 1>>>>],
         [when |-> <<<<<<"patient", "age_years">>, PyStr("<45")>>>>, add |-> <<<<"dx_lt", 1>>>>],
         [when |-> <<<<<<"patient", "age_years">>, PyStr("=45")>>>>, add |-> <<<<"dx_eq", 1>>>>]>>]]

(* a specification document whose two mechanism rules give the same points
   to two codes missing from diagnoses; ranking.top_k is 1 *)
TEST_SPEC_UNLISTED ==
  [diagnoses |-> <<"dx_a">>,
   output |-> [confidence_bands |-> <<[min |-> 0, max |-> 9, label |-> "low"]>>],
   ranking |-> [top_k |-> 1],
   scoring |-> [
      mechanism |-> <<
         [when |-> <<<<<<"mechanism">>, PyList(<<PyStr("twisting"), PyStr("pivot")>>)>>>>,
          add |-> <<<<"dx_first", 5>>>>],
         [when |-> <<<<<<"mechanism">>, PyStr("twisting")>>>>,
          add |-> <<<<"dx_second", 5>>>>]>>]]

ShippedSpecs == {KNEE_OA_SPEC, KNEE_INJURY_SPEC}

(* questionnaire_specs.py lines 241-288, without the question texts *)
QUESTIONNAIRE_FORMS ==
  ("knee_oa" :> [name |-> "Knee Osteoarthritis Assessment", spec |-> KNEE_OA_SPEC])
    @@ ("knee_injury" :> [name |-> "Knee Injury Assessment", spec |-> KNEE_INJURY_SPEC])

(* QUESTIONNAIRE_FORMS.get(form_name, {}) *)
get_questionnaire_form(form_name) ==
  IF form_name \in DOMAIN QUESTIONNAIRE_FORMS THEN QUESTIONNAIRE_FORMS[form_name] ELSE <<>>

(* the questionnaire types a caller asks for; "shoulder" has no form *)
QuestionnaireTypes == {"knee_oa", "knee_injury", "shoulder"}

(* stands for the spec of a questionnaire type whose form lookup found nothing *)
NoSpec == [form |-> <<>>]

(* lines 129-133 of _run_questionnaire_analysis: form["spec"] when the form is found *)
FormSpec(questionnaire_type) ==
  LET form == get_questionnaire_form(questionnaire_type)
  IN  IF form = <<>> THEN NoSpec ELSE form.spec

Specs ==
  ShippedSpecs \cup {TEST_SPEC_FLAGS} \cup {TestSpecTopK(k) : k \in 0..MaxTopK}
    \cup {FormSpec(t) : t \in QuestionnaireTypes}
    \cup {load_questionnaire_spec(TEST_SPEC_MALFORMED)}
    \cup {TEST_SPEC_COMPARATORS}
    \cup {load_questionnaire_spec(TEST_SPEC_UNLISTED)}

(* knee_oa_data of test_questionnaire_engine *)
KneeOaData ==
  PyDict(("patient" :> PyDict(("age_years" :> PyInt(65))))
      @@ ("laterality" :> PyStr("right"))
      @@ ("duration_class" :> PyStr("chronic"))
      @@ ("mechanism" :> PyStr("overuse"))
      @@ ("phenotype" :> PyList(<<PyStr("anterior_pain"), PyStr("stiffness")>>))
      @@ ("oa_index" :> PyDict(("global_pain" :> PyStr("moderate"))
                            @@ ("stiffness_morning" :> PyStr("moderate"))
                            @@ ("stiffness_after_rest" :> PyStr("moderate"))
                            @@ ("function" :> PyDict(("stairs_down" :> PyStr("moderate"))
                                   @@ ("stairs_up" :> PyStr("severe"))
                                   @@ ("rise_from_sit" :> PyStr("moderate"))
                                   @@ ("bend_to_floor" :> PyStr("mild"))
                                   @@ ("in_out_car" :> PyStr("moderate"))
                                   @@ ("socks_on_off" :> PyStr("moderate"))
                                   @@ ("in_out_bath" :> PyStr("mild"))
                                   @@ ("heavy_domestic" :> PyStr("severe"))))))
      @@ ("exam" :> PyDict(("alignment" :> PyStr("varus")) @@ ("effusion" :> PyStr("mild"))
                        @@ ("rom_restriction" :> PyBool(TRUE)) @@ ("pf_crepitus" :> PyStr("bone"))))
      @@ ("imaging" :> PyDict(("xray_oa_tf" :> PyBool(TRUE)) @@ ("malalignment" :> PyStr("varus"))))
      @@ ("red_flags" :> PyDict(("fever_unwell_hot_joint" :> PyBool(FALSE))
                             @@ ("true_locked_knee" :> PyBool(FALSE))
                             @@ ("inability_slr_after_eccentric_load" :> PyBool(FALSE)))))

(* knee_oa_data cut down to the fields that example scenario 1 names *)
Scenario1Record ==
  PyDict(("patient" :> PyDict(("age_years" :> PyInt(65))))
      @@ ("duration_class" :> PyStr("chronic"))
      @@ ("mechanism" :> PyStr("overuse"))
      @@ ("oa_index" :> PyDict(("global_pain" :> PyStr("moderate")) @@ ("stiffness_morning" :> PyStr("moderate"))))
      @@ ("exam" :> PyDict(("alignment" :> PyStr("varus"))))
      @@ ("imaging" :> PyDict(("xray_oa_tf" :> PyBool(TRUE)))))

(* knee_injury_data of test_questionnaire_engine *)
KneeInjuryData ==
  PyDict(("patient" :> PyDict(("age_years" :> PyInt(28))))
      @@ ("laterality" :> PyStr("left"))
      @@ ("duration_class" :> PyStr("acute"))
      @@ ("mechanism" :> PyStr("twisting"))
      @@ ("phenotype" :> PyList(<<PyStr("instability"), PyStr("locking_catching")>>))
      @@ ("knee_score" :> PyDict(("limp" :> PyInt(3)) @@ ("pain" :> PyInt(15)) @@ ("support" :> PyInt(2))
                              @@ ("swelling" :> PyInt(6)) @@ ("locking" :> PyInt(10))
                              @@ ("stair_climbing" :> PyInt(6)) @@ ("instability" :> PyInt(15))
                              @@ ("squatting" :> PyInt(2))))
      @@ ("exam" :> PyDict(("effusion" :> PyStr("moderate")) @@ ("alignment" :> PyStr("normal"))
                        @@ ("lachman" :> PyStr("yes_soft_endpoint")) @@ ("pivot_shift" :> PyBool(TRUE))
                        @@ ("mcmurray_medial" :> PyBool(FALSE)) @@ ("mcmurray_lateral" :> PyBool(FALSE))))
      @@ ("imaging" :> PyDict(("xray_oa_tf" :> PyBool(FALSE)) @@ ("malalignment" :> PyStr("none"))))
      @@ ("red_flags" :> PyDict(("fever_unwell_hot_joint" :> PyBool(FALSE))
                             @@ ("true_locked_knee" :> PyBool(FALSE))
                             @@ ("inability_slr_after_eccentric_load" :> PyBool(FALSE)))))

SeedRecords == {EmptyDict, KneeOaData, Scenario1Record, KneeInjuryData}

(* the facts a caller may add to a record: <<path, value>> *)
Facts ==
  { <<<<"red_flags", "fever_unwell_hot_joint">>, PyBool(TRUE)>>,
    <<<<"red_flags", "fever_unwell_hot_joint">>, PyBool(FALSE)>>,
    <<<<"red_flags", "true_locked_knee">>, PyBool(TRUE)>>,
    <<<<"red_flags", "inability_slr_after_eccentric_load">>, PyBool(TRUE)>>,
    <<<<"mechanism">>, PyStr("twisting")>>,
    <<<<"mechanism">>, PyStr("post_op")>>,
    <<<<"knee_score", "instability">>, PyInt(0)>>,
    <<<<"knee_score", "instability">>, PyInt(25)>>,
    <<<<"knee_score", "instability">>, None>>,
    <<<<"knee_score", "locking">>, PyInt(15)>>,
    <<<<"knee_score", "squatting">>, PyInt(10)>>,
    <<<<"knee_score", "swelling">>, PyStr("moderate")>>,
    <<<<"red_flags">>, PyStr("fever and chills")>>,
    <<<<"oa_index", "global_pain">>, PyStr("moderate")>>,
    <<<<"oa_index", "function", "stairs_down">>, PyStr("severe")>>,
    <<<<"oa_index", "function", "stairs_up">>, PyStr("severe")>>,
    <<<<"exam", "lachman">>, PyStr("yes_soft_endpoint")>>,
    <<<<"exam", "alignment">>, PyStr("varus")>>,
    <<<<"imaging", "mri_acl">>, PyBool(TRUE)>>,
    <<<<"imaging", "mri_acl">>, PyInt(1)>>,
    <<<<"patient", "age_years">>, PyInt(65)>>,
    <<<<"patient", "age_years">>, PyInt(45)>>,
    <<<<"patient", "age_years">>, PyStr("65")>>,
    <<<<"patient", "age_years">>, PyStr("elderly")>>,
    <<<<"patient", "age_years">>, None>>,
    <<<<"duration_class">>, PyStr("chronic")>>,
    <<<<"phenotype">>, PyList(<<PyStr("instability"), PyStr("locking_catching")>>)>>,
    <<<<"phenotype">>, PyStr("instability")>>,
    <<<<"phenotype">>, None>> }

(* the path can be set without replacing a value the record holds *)
RECURSIVE PathAbsent(_, _)
PathAbsent(d, path) ==
  IF d.t # "dict" THEN FALSE
  ELSE IF path[1] \notin DOMAIN d.v THEN TRUE
  ELSE IF Len(path) = 1 THEN FALSE
  ELSE PathAbsent(d.v[path[1]], Tail(path))

(* d[k1][k2]... = val, creating the intermediate dicts *)
RECURSIVE SetPath(_, _, _)
SetPath(d, path, val) ==
  IF Len(path) = 1 THEN PyDict((path[1] :> val) @@ d.v)
  ELSE LET sub == IF path[1] \in DOMAIN d.v THEN d.v[path[1]] ELSE EmptyDict
       IN  PyDict((path[1] :> SetPath(sub, Tail(path), val)) @@ d.v)

(* ------------------------------------------------------------------ *)
(* TriageAgent: keyword lists of the extraction                       *)
(* ------------------------------------------------------------------ *)
(* the keyword lists written in place in the code, under the name of what
   they detect *)
KeywordLists ==
  [injury |->   \* line 156
       {"injury", "hurt", "injured", "accident", "fall", "twist"},
   body_part |->   \* line 367
       {"shoulder", "knee", "back", "hip", "ankle", "wrist", "elbow", "neck", "left", "right"},
   age |->   \* line 483
       {"age", "years old", "i am", "i'm", "old"},
   bilateral |->   \* line 510
       {"middle", "central", "center", "centered", "both sides", "both", "bilateral"},
   acute |->   \* line 542
       {"acute", "recent", "just", "today", "yesterday"},
   chronic |->   \* line 544
       {"chronic", "long time"},
   symptoms |->   \* line 563
       {"pain", "ache", "hurt", "sore", "discomfort", "symptoms"},
   associated_symptoms |->   \* line 587
       {"swelling", "stiffness", "numbness", "weakness", "clicking", "popping", "instability",
        "locking"},
   timing |->   \* line 591
       {"constant", "comes and go", "intermittent", "episodic", "consistent", "getting better",
        "gradually", "improving", "worse", "better"},
   exacerbating_relieving |->   \* line 595
       {"better", "worse", "relief", "rest", "movement", "activity", "kneeling", "bending",
        "twisting"},
   severity |->   \* line 618
       {"scale", "out of 10", "rating", "severity", "7 out of 10", "8 out of 10", "9 out of 10",
        "10 out of 10"},
   stiffness |->   \* line 622
       {"morning stiffness", "stiff", "loosen up"},
   functional_impact |->   \* line 626
       {"work", "daily activities", "hobbies", "difficulty", "affecting", "plumber", "job",
        "tasks", "golf", "playing", "enjoy", "frustrating", "stuck", "painful", "swinging"},
   red_flags |->   \* line 639
       {"fever", "chills", "weight loss", "unwell", "hot joint"},
   detailed_treatment_history |->   \* line 643
       {"physiotherapy", "physio", "injection", "steroid", "specialist", "specialist treatment",
        "specialist treatments"},
   smoking_status |->   \* line 674
       {"smoke", "smoking", "cigarette", "tobacco", "non-smoker", "never smoked"},
   previous_injury_surgery |->   \* line 678
       {"acl", "meniscus", "arthroscopy", "knee replacement", "surgery", "operation",
        "reconstruction"},
   no_previous |->   \* line 680
       {"no previous", "no injuries", "no surgeries", "haven't had", "no operations"},
   treatment_response |->   \* line 684
       {"helped", "better", "improved", "no change", "worse", "didn't help", "no difference"},
   true_lock |->   \* line 688
       {"stuck", "won't move", "locked", "completely stuck"},
   catch_click |->   \* line 690
       {"click", "catch", "brief", "pops", "snaps"},
   overuse_context |->   \* line 694
       {"running", "marathon", "mileage", "training", "hill repeats", "prolonged standing"},
   oa_index_detailed |->   \* line 698
       {"stairs", "chair", "car", "socks", "bath", "domestic", "bending"},
   imaging_history |->   \* line 702
       {"x-ray", "mri", "scan", "imaging", "radiograph"},
   phenotype_symptoms |->   \* line 706
       {"instability", "giving way", "locking", "catching", "front of knee", "behind kneecap"}]

(* lines 567-571 *)
pain_keywords ==
    {"sharp", "dull", "aching", "burning", "throbbing", "stabbing", "stiff", "crushing",
     "pressure", "intense", "severe", "excruciating", "constant", "constant pain",
     "severe pain", "intense pain", "crushing pressure"}

(* lines 576-582 *)
radiation_keywords ==
    {"radiates", "spreads", "goes down", "shoots", "localized", "doesn't spread", "no spread",
     "just in", "only in", "doesn't really spread", "does not spread", "travels",
     "down the lateral side", "radiate down", "spread to", "goes to",
     "doesn't really spread to", "does not spread to"}

(* lines 630-634 *)
treatment_keywords ==
    {"treatment", "medication", "physiotherapy", "therapy", "tried", "analgesia",
     "knee support", "stretching", "exercises", "foam rolling", "ibuprofen", "paracetamol",
     "pain relievers", "over-the-counter", "managing", "self-managing"}

(* lines 647-652 *)
surgery_keywords ==
    {"surgery", "surgical", "operation", "yes", "interested", "consider", "recommended",
     "if it's what I need", "if it was recommended", "if that's what I need",
     "if that was recommended", "if necessary", "if it's necessary", "if that's necessary",
     "if recommended"}

(* lines 657-661 *)
conservative_keywords ==
    {"tried", "failed", "didn't help", "didn't work", "no improvement", "helped", "successful",
     "effective", "haven't tried", "haven't had", "no specialist treatments",
     "no physiotherapy", "no injections"}

(* lines 550-555: mechanism_keywords, in the order of the dict *)
mechanism_keywords ==
  <<[mechanism |-> "twisting",
     keywords |->
       {"injury", "hurt", "injured", "accident", "fall", "twist", "twisted", "stepped off",
        "landed", "jumped", "pivot", "cutting", "change of direction"}],
    [mechanism |-> "overuse",
     keywords |->
       {"overuse", "gradual", "insidious", "gradually", "over time", "slowly", "training",
        "running", "exercise", "repetitive"}],
    [mechanism |-> "direct_blow",
     keywords |->
       {"blow", "contact", "collision", "tackle", "hit", "struck", "dashboard", "fell onto"}],
    [mechanism |-> "unknown",
     keywords |->
       {"sudden", "suddenly", "came on", "woke up", "not sure", "don't know", "unclear"}]>>


(* ------------------------------------------------------------------ *)
(* TriageAgent: extraction of the patient data from the messages      *)
(* ------------------------------------------------------------------ *)
(* lines 446-476: the data dict before any message is read *)
EmptyData ==
  [patient |-> PyDict([age_years |-> None, gender |-> None]),
   laterality |-> None, duration_class |-> None, mechanism |-> None, symptoms |-> None,
   pain_character |-> None, radiation |-> None, associated_symptoms |-> None,
   timing |-> None, exacerbating_relieving |-> None, severity |-> None, stiffness |-> None,
   functional_impact |-> None, previous_treatment |-> None, red_flags |-> None,
   detailed_treatment_history |-> None, surgery_interest |-> None,
   conservative_treatment_failure |-> None, phenotype |-> PyList(<<>>),
   smoking_status |-> None, previous_injury_surgery |-> None, treatment_response |-> None,
   locking_type |-> None, overuse_context |-> None, oa_index_detailed |-> None,
   imaging_history |-> None, phenotype_symptoms |-> None]

(* any(word in content for word in words): the content of a message is given
   with the words of the keyword lists that occur in it *)
AnyIn(words, msg) == words \cap msg.words # {}

(* the number captured by the first pattern of the list that matches, with
   the position of that pattern; position 0 when none matches *)
RECURSIVE FirstMatchFrom(_, _)
FirstMatchFrom(found, i) ==
  IF i > Len(found) THEN [pattern |-> 0, group |-> 0]
  ELSE IF found[i] >= 0 THEN [pattern |-> i, group |-> found[i]]
  ELSE FirstMatchFrom(found, i + 1)

FirstMatch(found) == FirstMatchFrom(found, 1)

(* variant: the field is set to a nested object with the flag of the keyword *)
StoreContentAsFlags(data, field, words, msg) ==
  IF AnyIn(words, msg)
  THEN [data EXCEPT ![field] = PyDict([fever_unwell_hot_joint |-> PyBool(TRUE)])]
  ELSE data

(* if any(word in content for word in words): data[field] = content *)
StoreContent(data, field, words, msg) ==
  IF AnyIn(words, msg) THEN [data EXCEPT ![field] = PyStr(msg.content)] ELSE data

(* lines 482-496 *)
ExtractAge(data, msg) ==
  LET age_match == FirstMatch(msg.age_patterns)
  IN  IF AnyIn(KeywordLists.age, msg) /\ age_match.pattern > 0
      THEN [data EXCEPT !.patient = PyDict([@.v EXCEPT !.age_years = PyInt(age_match.group)])]
      ELSE data

(* lines 498-503 *)
ExtractGender(data, msg) ==
  IF msg.whole_words \cap {"female", "woman", "girl", "she", "her"} # {}
  THEN [data EXCEPT !.patient = PyDict([@.v EXCEPT !.gender = PyStr("female")])]
  ELSE IF msg.whole_words \cap {"male", "man", "boy", "he", "him"} # {}
  THEN [data EXCEPT !.patient = PyDict([@.v EXCEPT !.gender = PyStr("male")])]
  ELSE data

(* lines 505-511 *)
ExtractLaterality(data, msg) ==
  IF "left" \in msg.words THEN [data EXCEPT !.laterality = PyStr("left")]
  ELSE IF "right" \in msg.words THEN [data EXCEPT !.laterality = PyStr("right")]
  ELSE IF AnyIn(KeywordLists.bilateral, msg) THEN [data EXCEPT !.laterality = PyStr("bilateral")]
  ELSE data

(* lines 513-547: months, weeks, years in that order, then the keywords when
   no class is known yet *)
ExtractDuration(data, msg) ==
  LET time_match == FirstMatch(msg.time_patterns)
      value      == time_match.group
      d1 == CASE time_match.pattern = 1 ->
                   [data EXCEPT !.duration_class =
                      IF value < 3 THEN PyStr("subacute") ELSE PyStr("chronic")]
              [] time_match.pattern = 2 ->
                   [data EXCEPT !.duration_class =
                      IF value < 2 THEN PyStr("acute") ELSE PyStr("subacute")]
              [] time_match.pattern = 3 -> [data EXCEPT !.duration_class = PyStr("chronic")]
              [] OTHER -> data
  IN  IF Truthy(d1.duration_class) THEN d1
      ELSE IF AnyIn(KeywordLists.acute, msg) THEN [d1 EXCEPT !.duration_class = PyStr("acute")]
      ELSE IF AnyIn(KeywordLists.chronic, msg) THEN [d1 EXCEPT !.duration_class = PyStr("chronic")]
      ELSE IF "subacute" \in msg.words THEN [d1 EXCEPT !.duration_class = PyStr("subacute")]
      ELSE d1

(* lines 557-560: the first mechanism one of whose keywords occurs *)
ExtractMechanism(data, msg) ==
  LET hits == {i \in 1..Len(mechanism_keywords) : AnyIn(mechanism_keywords[i].keywords, msg)}
  IN  IF hits = {} THEN data
      ELSE LET first == CHOOSE i \in hits : \A j \in hits : i <= j
           IN  [data EXCEPT !.mechanism = PyStr(mechanism_keywords[first].mechanism)]

(* lines 599-619: the number of the pain scale, else the content when it
   speaks of a scale and no severity is known yet *)
ExtractSeverity(data, msg) ==
  LET severity_match == FirstMatch(msg.severity_patterns)
      d1 == IF severity_match.pattern > 0
            THEN [data EXCEPT !.severity = PyInt(severity_match.group)]
            ELSE data
  IN  IF ~Truthy(d1.severity) /\ AnyIn(KeywordLists.severity, msg)
      THEN [d1 EXCEPT !.severity = PyStr(msg.content)]
      ELSE d1

(* lines 665-671: data["phenotype"].append(...) *)
ExtractPhenotype(data, msg) ==
  LET p1 == IF {"instability", "giving way"} \cap msg.words # {}
            THEN <<PyStr("instability")>> ELSE <<>>
      p2 == IF {"locking", "catching"} \cap msg.words # {}
            THEN <<PyStr("locking_catching")>> ELSE <<>>
      p3 == IF {"anterior", "front"} \cap msg.words # {}
            THEN <<PyStr("anterior_pain")>> ELSE <<>>
  IN  [data EXCEPT !.phenotype = PyList(@.v \o p1 \o p2 \o p3)]

(* lines 677-681 *)
ExtractPreviousInjurySurgery(data, msg) ==
  IF AnyIn(KeywordLists.previous_injury_surgery, msg)
  THEN [data EXCEPT !.previous_injury_surgery = PyStr(msg.content)]
  ELSE IF AnyIn(KeywordLists.no_previous, msg)
  THEN [data EXCEPT !.previous_injury_surgery = PyStr("none")]
  ELSE data

(* lines 687-691 *)
ExtractLockingType(data, msg) ==
  IF AnyIn(KeywordLists.true_lock, msg) THEN [data EXCEPT !.locking_type = PyStr("true_lock")]
  ELSE IF AnyIn(KeywordLists.catch_click, msg) THEN [data EXCEPT !.locking_type = PyStr("catch_click")]
  ELSE data

(* lines 693-695 *)
ExtractOveruseContext(data, msg) ==
  IF AnyIn(KeywordLists.overuse_context, msg)
  THEN [data EXCEPT !.overuse_context = PyStr("running_overuse")]
  ELSE data

(* lines 482-706: the fields one user message is searched for, in the order
   of the code *)
ExtractionOrder ==
  <<"age_years", "gender", "laterality", "duration_class", "mechanism", "symptoms",
    "pain_character", "radiation", "associated_symptoms", "timing",
    "exacerbating_relieving", "severity", "stiffness", "functional_impact",
    "previous_treatment", "red_flags", "detailed_treatment_history", "surgery_interest",
    "conservative_treatment_failure", "phenotype", "smoking_status",
    "previous_injury_surgery", "treatment_response", "locking_type", "overuse_context",
    "oa_index_detailed", "imaging_history", "phenotype_symptoms">>

(* the block of lines 482-706 that fills one field *)
ExtractField(step, data, msg) ==
  CASE step = "age_years" -> ExtractAge(data, msg)
    [] step = "gender" -> ExtractGender(data, msg)
    [] step = "laterality" -> ExtractLaterality(data, msg)
    [] step = "duration_class" -> ExtractDuration(data, msg)
    [] step = "mechanism" -> ExtractMechanism(data, msg)
    [] step = "symptoms" -> StoreContent(data, "symptoms", KeywordLists.symptoms, msg)
    [] step = "pain_character" -> StoreContent(data, "pain_character", pain_keywords, msg)
    [] step = "radiation" -> StoreContent(data, "radiation", radiation_keywords, msg)
    [] step = "associated_symptoms" -> StoreContent(data, "associated_symptoms", KeywordLists.associated_symptoms, msg)
    [] step = "timing" -> StoreContent(data, "timing", KeywordLists.timing, msg)
    [] step = "exacerbating_relieving" -> StoreContent(data, "exacerbating_relieving", KeywordLists.exacerbating_relieving, msg)
    [] step = "severity" -> ExtractSeverity(data, msg)
    [] step = "stiffness" -> StoreContent(data, "stiffness", KeywordLists.stiffness, msg)
    [] step = "functional_impact" -> StoreContent(data, "functional_impact", KeywordLists.functional_impact, msg)
    [] step = "previous_treatment" -> StoreContent(data, "previous_treatment", treatment_keywords, msg)
    [] step = "red_flags" -> StoreContent(data, "red_flags", KeywordLists.red_flags, msg)
    [] step = "detailed_treatment_history" -> StoreContent(data, "detailed_treatment_history", KeywordLists.detailed_treatment_history, msg)
    [] step = "surgery_interest" -> StoreContent(data, "surgery_interest", surgery_keywords, msg)
    [] step = "conservative_treatment_failure" -> StoreContent(data, "conservative_treatment_failure", conservative_keywords, msg)
    [] step = "phenotype" -> ExtractPhenotype(data, msg)
    [] step = "smoking_status" -> StoreContent(data, "smoking_status", KeywordLists.smoking_status, msg)
    [] step = "previous_injury_surgery" -> ExtractPreviousInjurySurgery(data, msg)
    [] step = "treatment_response" -> StoreContent(data, "treatment_response", KeywordLists.treatment_response, msg)
    [] step = "locking_type" -> ExtractLockingType(data, msg)
    [] step = "overuse_context" -> ExtractOveruseContext(data, msg)
    [] step = "oa_index_detailed" -> StoreContent(data, "oa_index_detailed", KeywordLists.oa_index_detailed, msg)
    [] step = "imaging_history" -> StoreContent(data, "imaging_history", KeywordLists.imaging_history, msg)
    [] step = "phenotype_symptoms" -> StoreContent(data, "phenotype_symptoms", KeywordLists.phenotype_symptoms, msg)

(* lines 479-706: what one user message adds to data *)
RECURSIVE ExtractMessageFrom(_, _, _)
ExtractMessageFrom(data, msg, i) ==
  IF i > Len(ExtractionOrder) THEN data
  ELSE LET data1 == ExtractField(ExtractionOrder[i], data, msg)
       IN  IF data1 = data   \* the message says nothing about this field
           THEN ExtractMessageFrom(data, msg, i + 1)
           ELSE ExtractMessageFrom(data1, msg, i + 1)

ExtractMessage(data, msg) == ExtractMessageFrom(data, msg, 1)

(* lines 478-480: for msg in messages: if msg['role'] == 'user' *)
RECURSIVE ExtractFrom(_, _, _)
ExtractFrom(data, messages, i) ==
  IF i > Len(messages) THEN data
  ELSE IF messages[i].role = "user"
  THEN LET data1 == ExtractMessage(data, messages[i].content)
       IN  IF data1 = data   \* the message says nothing the extraction looks for
           THEN ExtractFrom(data, messages, i + 1)
           ELSE ExtractFrom(data1, messages, i + 1)
  ELSE ExtractFrom(data, messages, i + 1)

extract_patient_data(messages) == ExtractFrom(EmptyData, messages, 1)

(* ------------------------------------------------------------------ *)
(* TriageAgent: the question sequencing                               *)
(* ------------------------------------------------------------------ *)
(* lines 170-199 *)
KneeInjurySequence ==
  <<"GREETING", "SELECT_BODY_PART", "GATHER_AGE", "GATHER_LATERALITY", "GATHER_DURATION",
    "GATHER_MECHANISM", "GATHER_SYMPTOMS", "GATHER_PAIN_CHARACTER", "GATHER_RADIATION",
    "GATHER_ASSOCIATED_SYMPTOMS", "GATHER_TIMING", "GATHER_EXACERBATING_RELIEVING",
    "GATHER_SEVERITY", "GATHER_KNEE_SCORE", "GATHER_FUNCTIONAL_IMPACT",
    "GATHER_PREVIOUS_TREATMENT", "GATHER_TREATMENT_RESPONSE",
    "GATHER_PREVIOUS_INJURY_SURGERY", "GATHER_LOCKING_TYPE", "GATHER_OVERUSE_CONTEXT",
    "GATHER_PHENOTYPE_SYMPTOMS", "GATHER_IMAGING_HISTORY", "GATHER_SMOKING_STATUS",
    "GATHER_SURGERY_INTEREST", "GATHER_CONSERVATIVE_TREATMENT_FAILURE", "GATHER_RED_FLAGS",
    "COMPLETE">>

(* lines 200-229 *)
KneeOaSequence ==
  <<"GREETING", "SELECT_BODY_PART", "GATHER_AGE", "GATHER_LATERALITY", "GATHER_DURATION",
    "GATHER_MECHANISM", "GATHER_SYMPTOMS", "GATHER_PAIN_CHARACTER", "GATHER_RADIATION",
    "GATHER_ASSOCIATED_SYMPTOMS", "GATHER_TIMING", "GATHER_EXACERBATING_RELIEVING",
    "GATHER_SEVERITY", "GATHER_STIFFNESS", "GATHER_OA_INDEX_DETAILED",
    "GATHER_FUNCTIONAL_IMPACT", "GATHER_PREVIOUS_TREATMENT", "GATHER_TREATMENT_RESPONSE",
    "GATHER_PREVIOUS_INJURY_SURGERY", "GATHER_LOCKING_TYPE", "GATHER_OVERUSE_CONTEXT",
    "GATHER_PHENOTYPE_SYMPTOMS", "GATHER_IMAGING_HISTORY", "GATHER_SMOKING_STATUS",
    "GATHER_SURGERY_INTEREST", "GATHER_CONSERVATIVE_TREATMENT_FAILURE", "GATHER_RED_FLAGS",
    "COMPLETE">>

(* lines 170, 200: every questionnaire but knee_injury takes the else branch *)
StateSequence(questionnaire) ==
  IF questionnaire = "knee_injury" THEN KneeInjurySequence ELSE KneeOaSequence

(* lines 151-166: the questionnaire is chosen from the last message, once *)
ChooseQuestionnaire(current, messages) ==
  IF current # "None" THEN current
  ELSE LET last_user_message ==
             IF messages # <<>> THEN messages[Len(messages)].content.words ELSE {}
       IN  IF "knee" \in last_user_message
           THEN IF KeywordLists.injury \cap last_user_message # {} THEN "knee_injury" ELSE "knee_oa"
           ELSE IF "shoulder" \in last_user_message THEN "shoulder_generic"
           ELSE "knee_oa"

(* lines 357-370 *)
has_body_part_info(patient_data, messages) ==
  \/ Truthy(patient_data.laterality)
  \/ \E i \in 1..Len(messages) :
        messages[i].role = "user" /\ AnyIn(KeywordLists.body_part, messages[i].content)

(* lines 246-345: the key of patient_data that answers the question of a state *)
StateKey ==
  [GATHER_LATERALITY |-> "laterality", GATHER_DURATION |-> "duration_class",
   GATHER_MECHANISM |-> "mechanism", GATHER_SYMPTOMS |-> "symptoms",
   GATHER_PAIN_CHARACTER |-> "pain_character", GATHER_RADIATION |-> "radiation",
   GATHER_ASSOCIATED_SYMPTOMS |-> "associated_symptoms", GATHER_TIMING |-> "timing",
   GATHER_EXACERBATING_RELIEVING |-> "exacerbating_relieving",
   GATHER_SEVERITY |-> "severity", GATHER_STIFFNESS |-> "stiffness",
   GATHER_KNEE_SCORE |-> "knee_score", GATHER_FUNCTIONAL_IMPACT |-> "functional_impact",
   GATHER_PREVIOUS_TREATMENT |-> "previous_treatment",
   GATHER_SURGERY_INTEREST |-> "surgery_interest",
   GATHER_CONSERVATIVE_TREATMENT_FAILURE |-> "conservative_treatment_failure",
   GATHER_SMOKING_STATUS |-> "smoking_status",
   GATHER_PREVIOUS_INJURY_SURGERY |-> "previous_injury_surgery",
   GATHER_TREATMENT_RESPONSE |-> "treatment_response",
   GATHER_LOCKING_TYPE |-> "locking_type", GATHER_OVERUSE_CONTEXT |-> "overuse_context",
   GATHER_OA_INDEX_DETAILED |-> "oa_index_detailed",
   GATHER_IMAGING_HISTORY |-> "imaging_history",
   GATHER_PHENOTYPE_SYMPTOMS |-> "phenotype_symptoms", GATHER_RED_FLAGS |-> "red_flags"]

(* lines 238-352: the test under which the loop returns the state *)
StillToAsk(state, patient_data, messages) ==
  CASE state = "GREETING" -> ~\E i \in 1..Len(messages) : messages[i].role = "assistant"
    [] state = "SELECT_BODY_PART" -> ~has_body_part_info(patient_data, messages)
    [] state = "GATHER_AGE" -> ~Truthy(patient_data.patient.v.age_years)
    [] state = "COMPLETE" -> TRUE
    [] OTHER -> ~Truthy(Get(patient_data, StateKey[state], None))

(* variant: the count of earlier questions is not looked at *)
RECURSIVE NextStateFromNoCap(_, _, _, _, _)
NextStateFromNoCap(state_sequence, question_count, patient_data, messages, i) ==
  IF i > Len(state_sequence) THEN "COMPLETE"
  ELSE IF StillToAsk(state_sequence[i], patient_data, messages) THEN state_sequence[i]
  ELSE NextStateFromNoCap(state_sequence, question_count, patient_data, messages, i + 1)

(* lines 232-355: the first state, asked less than twice, that is still to ask *)
RECURSIVE NextStateFrom(_, _, _, _, _)
NextStateFrom(state_sequence, question_count, patient_data, messages, i) ==
  IF i > Len(state_sequence) THEN "COMPLETE"
  ELSE IF Get(question_count, state_sequence[i], 0) >= 2
  THEN NextStateFrom(state_sequence, question_count, patient_data, messages, i + 1)
  ELSE IF StillToAsk(state_sequence[i], patient_data, messages) THEN state_sequence[i]
  ELSE NextStateFrom(state_sequence, question_count, patient_data, messages, i + 1)

(* lines 145-355, on an agent given by its fields current_questionnaire and
   question_count: the state, and the agent with its questionnaire chosen *)
determine_current_state(agent, messages) ==
  LET patient_data  == extract_patient_data(messages)
      questionnaire == ChooseQuestionnaire(agent.current_questionnaire, messages)
  IN  [state |-> NextStateFrom(StateSequence(questionnaire), agent.question_count,
                               patient_data, messages, 1),
       agent |-> [agent EXCEPT !.current_questionnaire = questionnaire]]

(* lines 58-64: a new TriageAgent *)
NewAgent == [current_questionnaire |-> "None", question_count |-> <<>>]

(* variant: the count of a state is set to 1 whenever it is selected, so it
   never reaches 2 *)
CountQuestionOnce(question_count, current_state) ==
  [s \in DOMAIN question_count \cup {current_state} |->
     IF s = current_state THEN 1 ELSE question_count[s]]

(* line 719: self.question_count[current_state] =
   self.question_count.get(current_state, 0) + 1 *)
CountQuestion(question_count, current_state) ==
  [s \in DOMAIN question_count \cup {current_state} |->
     Get(question_count, s, 0) + IF s = current_state THEN 1 ELSE 0]

(* lines 719-742: the state is counted and its question is the response;
   determined is what determine_current_state gave *)
Respond(determined) ==
  [response |-> [role |-> "assistant", content |-> determined.state],
   state    |-> determined.state,
   agent    |-> [determined.agent EXCEPT
                   !.question_count = CountQuestion(@, determined.state)]]

(* lines 711-742 *)
get_next_response(agent, messages) == Respond(determine_current_state(agent, messages))

(* ------------------------------------------------------------------ *)
(* Messages a patient sends: the lower-cased content, the words of    *)
(* the keyword lists that occur in it, the gender words that occur as *)
(* whole words, and the number each regular expression of the age,    *)
(* time and severity lists captures in it (-1: no match)              *)
(* ------------------------------------------------------------------ *)
MaxTurns == 4

Utterances ==
  {[content |-> "i'm 58 years old, my left knee injury started 6 months ago, sharp pain spreads to my shin, with swelling, constant and worse on stairs, 7/10",
    words |->
      {"constant", "i'm", "injury", "knee", "left", "old", "pain", "sharp", "spreads", "stairs",
       "swelling", "worse", "years old"},
    whole_words |-> {},
    age_patterns |-> <<58, 58, -1, -1>>, time_patterns |-> <<6, -1, 58>>,
    severity_patterns |-> <<7, -1, -1, -1, -1>>],
   [content |-> "ok",
    words |->
      {},
    whole_words |-> {},
    age_patterns |-> <<-1, -1, -1, -1>>, time_patterns |-> <<-1, -1, -1>>,
    severity_patterns |-> <<-1, -1, -1, -1, -1>>],
   [content |-> "my pain is 0/10 today",
    words |->
      {"pain", "today"},
    whole_words |-> {},
    age_patterns |-> <<-1, -1, -1, -1>>, time_patterns |-> <<-1, -1, -1>>,
    severity_patterns |-> <<0, -1, -1, -1, -1>>],
   [content |-> "i have knee pain",
    words |->
      {"knee", "pain"},
    whole_words |-> {},
    age_patterns |-> <<-1, -1, -1, -1>>, time_patterns |-> <<-1, -1, -1>>,
    severity_patterns |-> <<-1, -1, -1, -1, -1>>],
   [content |-> "my right shoulder",
    words |->
      {"right", "shoulder"},
    whole_words |-> {},
    age_patterns |-> <<-1, -1, -1, -1>>, time_patterns |-> <<-1, -1, -1>>,
    severity_patterns |-> <<-1, -1, -1, -1, -1>>],
   [content |-> "no fever, i tried physiotherapy and it helped, i smoke, she had an mri",
    words |->
      {"fever", "helped", "mri", "physio", "physiotherapy", "smoke", "therapy", "tried"},
    whole_words |-> {"she"},
    age_patterns |-> <<-1, -1, -1, -1>>, time_patterns |-> <<-1, -1, -1>>,
    severity_patterns |-> <<-1, -1, -1, -1, -1>>]}

(* ui.py line 11: the greeting the chat page starts with *)
UiGreeting == [role |-> "assistant", content |-> "GREETING"]

(* ------------------------------------------------------------------ *)
(* State                                                              *)
(* ------------------------------------------------------------------ *)
VARIABLES
  spec,       \* the specification passed to the engine
  input_obj,  \* the patient record passed to the engine
  result,     \* what the last call of run_questionnaire_engine returned
  scores,     \* the scores dict of the last call
  reasons,    \* the reasons dict of the last call
  previous,   \* the outcome of the call before and the paths added since it
  pending,    \* the paths added to input_obj since the last call
  n_added,    \* how many facts were added to the seed record
  client,     \* who talks to the triage agent: the simulator or the chat page
  messages,   \* the conversation history
  agent,      \* the fields of the TriageAgent that served the last turn
  emitted,    \* the state selected in each turn of the conversation so far
  times_emitted  \* how often each state was selected so far

engine_vars == <<spec, input_obj, result, scores, reasons, previous, pending, n_added>>

triage_vars == <<client, messages, agent, emitted, times_emitted>>

vars == <<spec, input_obj, result, scores, reasons, previous, pending, n_added,
          client, messages, agent, emitted, times_emitted>>

NoResult == [route |-> "none"]

NoPrevious == [result |-> NoResult, scores |-> <<>>, reasons |-> <<>>, added |-> <<>>]

(* lines 130-131 and 137-138: the error values of _run_questionnaire_analysis *)
FormNotFound == [error |-> <<"Questionnaire form not found">>]

AnalysisFailed(exc) == [error |-> <<"Questionnaire analysis failed: ", exc>>]

(* lines 134-138: the try block around the engine's call; out is what the
   engine returned or raised *)
AnalysisOutcome(out) ==
  IF "raised" \in DOMAIN out.result
  THEN [result |-> AnalysisFailed(out.result.raised), scores |-> <<>>, reasons |-> <<>>]
  ELSE out

(* variant: a missing form and an exception of the engine are swallowed into
   a routine result with an empty ranking *)
AnalysisSwallowing(spec_or_none, patient_data) ==
  LET empty == [result  |-> [route |-> "routine", top |-> <<>>, safety_net |-> <<>>],
                scores  |-> <<>>,
                reasons |-> <<>>]
  IN  IF spec_or_none = NoSpec THEN empty
      ELSE LET out == run_questionnaire_engine(spec_or_none, patient_data)
           IN  IF "raised" \in DOMAIN out.result THEN empty ELSE out

(* lines 129-138 without the return: the engine's outcome, or the error value *)
Analysis(spec_or_none, patient_data) ==
  IF spec_or_none = NoSpec
  THEN [result |-> FormNotFound, scores |-> <<>>, reasons |-> <<>>]
  ELSE AnalysisOutcome(run_questionnaire_engine(spec_or_none, patient_data))

Init ==
  /\ spec \in Specs
  /\ input_obj \in SeedRecords
  /\ result = NoResult
  /\ scores = <<>>
  /\ reasons = <<>>
  /\ previous = NoPrevious
  /\ pending = <<>>
  /\ n_added = 0
  /\ client = "simulator"
  /\ messages = <<>>
  /\ agent = NewAgent
  /\ emitted = <<>>
  /\ times_emitted = <<>>

(* the caller adds one fact to the record *)
AddFact ==
  \E f \in Facts :
    /\ n_added < MaxFacts
    /\ Len(pending) < MaxPending
    /\ PathAbsent(input_obj, f[1])
    /\ input_obj' = SetPath(input_obj, f[1], f[2])
    /\ n_added' = n_added + 1
    /\ pending' = IF result = NoResult THEN <<>> ELSE Append(pending, f[1])
    /\ previous' = NoPrevious
    /\ UNCHANGED <<spec, result, scores, reasons>>
    /\ UNCHANGED triage_vars

(* variant: the scores dict outlives the call and is not reset by the next one *)
EvaluateAccumulating ==
  LET out == Analysis(spec, input_obj)
      acc == [i \in 1..Len(out.scores) |->
                <<out.scores[i][1], out.scores[i][2] + DictGet(scores, out.scores[i][1], 0)>>]
  IN  /\ result' = IF "route" \in DOMAIN out.result /\ out.result.route = "routine"
                   THEN RoutineResult(spec, input_obj, [scores |-> acc, reasons |-> out.reasons])
                   ELSE out.result
      /\ scores' = acc
      /\ reasons' = out.reasons
      /\ previous' = IF result # NoResult
                     THEN [result |-> result, scores |-> scores, reasons |-> reasons,
                           added |-> pending]
                     ELSE NoPrevious
      /\ pending' = <<>>
      /\ UNCHANGED <<spec, input_obj, n_added>>
      /\ UNCHANGED triage_vars

(* _run_questionnaire_analysis(patient_data, questionnaire_type); the test
   calls run_questionnaire_engine(spec, input_obj) itself, with the same
   outcome whenever the engine returns *)
Evaluate ==
  \E out \in {Analysis(spec, input_obj)} :
      /\ result' = out.result
      /\ scores' = out.scores
      /\ reasons' = out.reasons
      /\ previous' = IF result # NoResult
                     THEN [result |-> result, scores |-> scores, reasons |-> reasons,
                           added |-> pending]
                     ELSE NoPrevious
      /\ pending' = <<>>
      /\ UNCHANGED <<spec, input_obj, n_added>>
      /\ UNCHANGED triage_vars

Next == AddFact \/ Evaluate

Spec == Init /\ [][Next]_vars

(* ------------------------------------------------------------------ *)
(* Conversations with the triage agent                                *)
(* ------------------------------------------------------------------ *)
(* one more selection of the state is noted *)
Tally(times, state) ==
  [s \in DOMAIN times \cup {state} |->
     (IF s \in DOMAIN times THEN times[s] ELSE 0) + (IF s = state THEN 1 ELSE 0)]

TriageInit ==
  /\ spec = NoSpec
  /\ input_obj = EmptyDict
  /\ result = NoResult
  /\ scores = <<>>
  /\ reasons = <<>>
  /\ previous = NoPrevious
  /\ pending = <<>>
  /\ n_added = 0
  /\ client \in {"simulator", "ui"}
  /\ messages = IF client = "ui" THEN <<UiGreeting>> ELSE <<>>
  /\ agent = NewAgent
  /\ emitted = <<>>
  /\ times_emitted = <<>>

(* patient_simulator_ollama.py lines 169-183, get_bot_response: the user
   message is appended, the one agent of the simulator answers, the answer is
   appended *)
SimulatorTurn ==
  \E content \in Utterances :
    /\ client = "simulator"
    /\ Len(emitted) < MaxTurns
    /\ \E history \in {Append(messages, [role |-> "user", content |-> content])} :
       \E out \in {get_next_response(agent, history)} :
           /\ messages' = Append(history, out.response)
           /\ agent' = out.agent
           /\ emitted' = Append(emitted, out.state)
           /\ times_emitted' = Tally(times_emitted, out.state)
    /\ UNCHANGED <<client>>
    /\ UNCHANGED engine_vars

(* ui.py lines 21-37 and main.py lines 27-39, ask_llm: the page appends the
   user message and posts the history, the endpoint makes a new TriageAgent
   for the request, the page appends the response *)
AskRequest ==
  \E content \in Utterances :
    /\ client = "ui"
    /\ Len(emitted) < MaxTurns
    /\ \E history \in {Append(messages, [role |-> "user", content |-> content])} :
       \E out \in {get_next_response(NewAgent, history)} :
           /\ messages' = Append(history, out.response)
           /\ agent' = out.agent
           /\ emitted' = Append(emitted, out.state)
           /\ times_emitted' = Tally(times_emitted, out.state)
    /\ UNCHANGED <<client>>
    /\ UNCHANGED engine_vars

TriageNext == SimulatorTurn \/ AskRequest

TriageSpec == TriageInit /\ [][TriageNext]_vars

(* ------------------------------------------------------------------ *)
(* One TriageAgent called again and again, with any history           *)
(* ------------------------------------------------------------------ *)
MaxCalls == 56

(* the histories a caller passes: an empty one, and the greeting of the
   assistant followed by one of the user messages that answer several
   questions *)
Histories ==
  {<<>>}
    \cup {<<UiGreeting, [role |-> "user", content |-> content]>> :
            content \in {u \in Utterances : Cardinality(u.words) > 2}}

(* the calls made so far *)
RECURSIVE SumOver(_, _)
SumOver(times, keys) ==
  IF keys = {} THEN 0
  ELSE LET k == CHOOSE k \in keys : TRUE
       IN  times[k] + SumOver(times, keys \ {k})

Calls == SumOver(times_emitted, DOMAIN times_emitted)

CallsInit ==
  /\ spec = NoSpec
  /\ input_obj = EmptyDict
  /\ result = NoResult
  /\ scores = <<>>
  /\ reasons = <<>>
  /\ previous = NoPrevious
  /\ pending = <<>>
  /\ n_added = 0
  /\ client = "simulator"
  /\ messages = <<>>
  /\ agent = NewAgent
  /\ emitted = <<>>
  /\ times_emitted = <<>>

(* triage_agent.py lines 711-742, get_next_response on the same agent: the
   caller passes a history, the agent selects and counts a state *)
AgentCall ==
  \E history \in Histories :
    /\ Calls < MaxCalls
    /\ \E out \in {get_next_response(agent, history)} :
           /\ messages' = history
           /\ agent' = out.agent
           /\ times_emitted' = Tally(times_emitted, out.state)
    /\ UNCHANGED <<client, emitted>>
    /\ UNCHANGED engine_vars

CallsNext == AgentCall

CallsSpec == CallsInit /\ [][CallsNext]_vars

(* the result in hand is the one for the current record *)
Fresh == result # NoResult /\ pending = <<>> /\ "route" \in DOMAIN result

(* ------------------------------------------------------------------ *)
(* Properties                                                         *)
(* ------------------------------------------------------------------ *)
RedFlagLogic == Get(spec, "red_flag_logic", <<>>)

(* every path of red_flag_logic entry i resolves to a truthy value *)
EntryHolds(i) ==
  \A j \in 1..Len(RedFlagLogic[i].if_all_true) :
     Truthy(get_by_path(input_obj, RedFlagLogic[i].if_all_true[j]))

SomeEntryHolds == \E i \in 1..Len(RedFlagLogic) : EntryHolds(i)

(* the diagnoses the scoring rules give points to for the current record *)
ScoredDx(min_score) ==
  LET sc == Score(spec, input_obj).scores
  IN  {i \in 1..Len(sc) : sc[i][2] >= min_score}

(* C1 - Red-flag precedence: when some red_flag_logic entry has all its
   if_all_true paths truthy, the engine returns route 'urgent' and no 'top'
   list, whatever the scoring rules would have given. *)
RedFlagPrecedence ==
  (Fresh /\ SomeEntryHolds) => (result.route = "urgent" /\ "top" \notin DOMAIN result)

(* an urgent result for a record whose scoring would have reached the
   'moderate' band *)
RedFlagPrecedenceWitness ==
  /\ Fresh /\ SomeEntryHolds
  /\ result.route = "urgent"
  /\ ScoredDx(8) # {}

(* C2 - Red-flag first match: the urgent result carries the paths and the
   diagnosis of the earliest entry whose paths are all truthy; under both
   shipped specs a truthy red_flags.fever_unwell_hot_joint gives 'urgent'
   with septic_arthritis whatever the other fields hold. *)
RedFlagFirstMatch ==
  /\ (Fresh /\ SomeEntryHolds) =>
       LET first == CHOOSE i \in 1..Len(RedFlagLogic) :
                       EntryHolds(i) /\ \A j \in 1..(i - 1) : ~EntryHolds(j)
       IN  /\ result.route = "urgent"
           /\ result.urgent_reason = RedFlagLogic[first].if_all_true
           /\ result.provisional_diagnosis = PyStr(RedFlagLogic[first].action.diagnosis)
  /\ (/\ Fresh
      /\ spec \in ShippedSpecs
      /\ Truthy(get_by_path(input_obj, <<"red_flags", "fever_unwell_hot_joint">>))) =>
       /\ result.route = "urgent"
       /\ result.provisional_diagnosis = PyStr("septic_arthritis")

(* two entries hold at once and the earlier one is reported *)
RedFlagFirstMatchWitness ==
  /\ Fresh
  /\ Cardinality({i \in 1..Len(RedFlagLogic) : EntryHolds(i)}) >= 2
  /\ result.route = "urgent"
  /\ result.provisional_diagnosis \in {PyStr("septic_arthritis"), PyStr("septic_locked_knee")}

(* spec.ranking.top_k, 3 when it is not given *)
DeclaredTopK ==
  IF "ranking" \in DOMAIN spec /\ "top_k" \in DOMAIN spec.ranking THEN spec.ranking.top_k ELSE 3

NonZeroScores == {i \in 1..Len(scores) : scores[i][2] # 0}

(* C3 - Zero-score exclusion: no entry of 'top' of a routine result has
   score 0. *)
ZeroScoreExclusion ==
  (Fresh /\ result.route = "routine") =>
     \A i \in 1..Len(result.top) : result.top[i].score # 0

(* fewer diagnoses scored than top_k: zero-score diagnoses were inside the
   ranked[:top_k] window and were left out *)
ZeroScoreExclusionWitness ==
  /\ Fresh /\ result.route = "routine"
  /\ Len(result.top) >= 1
  /\ Cardinality(NonZeroScores) < DeclaredTopK
  /\ Len(scores) >= DeclaredTopK

(* C4 - Top-K bound: a routine result has at most spec.ranking.top_k
   entries in 'top' (3 when top_k is not given). *)
TopKBound ==
  (Fresh /\ result.route = "routine") => Len(result.top) <= DeclaredTopK

(* more diagnoses scored than the default top_k of a spec without a ranking
   section, and 'top' is cut to 3 *)
TopKBoundWitness ==
  /\ Fresh /\ result.route = "routine"
  /\ "ranking" \notin DOMAIN spec
  /\ Cardinality(NonZeroScores) > 3
  /\ Len(result.top) = 3

(* C5 - Determinism: a call with the same spec and record as the call before
   returns the same result (route, top entries with scores, bands and key
   drivers, safety_net) and builds the same scores and reasons: the earlier
   call has not changed what the later one returns. *)
Determinism ==
  (previous # NoPrevious /\ previous.added = <<>>) =>
     /\ result = previous.result
     /\ scores = previous.scores
     /\ reasons = previous.reasons

(* a second call on a record that ranks at least one diagnosis *)
DeterminismWitness ==
  /\ previous # NoPrevious
  /\ previous.added = <<>>
  /\ "route" \in DOMAIN result
  /\ result.route = "routine"
  /\ Len(result.top) >= 1

(* the call before was made on the record without the one fact added since,
   and neither record fires a red flag *)
OneFactAdded ==
  /\ Fresh
  /\ previous # NoPrevious
  /\ Len(previous.added) = 1
  /\ "route" \in DOMAIN previous.result
  /\ previous.result.route = "routine"
  /\ result.route = "routine"

NoScoreLower == \A i \in 1..Len(scores) : scores[i][2] >= previous.scores[i][2]

(* C6 as stated - Monotonicity: under a shipped spec, adding one fact at an
   absent path without firing a red flag lowers no diagnosis's score, facts
   under knee_score and oa_index included. *)
MonotonicityAnyFact ==
  (OneFactAdded /\ spec \in ShippedSpecs) => NoScoreLower

(* C6 as amended - Monotonicity: under a shipped spec, adding one fact at an
   absent path without firing a red flag lowers no diagnosis's score, provided
   that under KNEE_INJURY_SPEC the fact is not under knee_score (there the
   deficit rules count an absent sub-score as 0 and the total rule adds
   round(0.1 * (100 - total)), so a reported sub-score takes points away). *)
Monotonicity ==
  (/\ OneFactAdded
   /\ spec \in ShippedSpecs
   /\ (spec = KNEE_INJURY_SPEC => previous.added[1][1] # "knee_score")) => NoScoreLower

(* a fact outside knee_score was added under KNEE_INJURY_SPEC to a record
   that already had points, and a score went up *)
MonotonicityWitness ==
  /\ OneFactAdded
  /\ spec = KNEE_INJURY_SPEC
  /\ previous.added[1][1] # "knee_score"
  /\ \E i \in 1..Len(scores) : previous.scores[i][2] > 0 /\ scores[i][2] > previous.scores[i][2]

(* the diagnosis code is one of spec.diagnoses *)
Listed(dx) == \E i \in 1..Len(spec.diagnoses) : spec.diagnoses[i] = dx

(* the position of a listed diagnosis code in spec.diagnoses *)
DiagnosisIndex(dx) == CHOOSE i \in 1..Len(spec.diagnoses) : spec.diagnoses[i] = dx

DeclaresTieBreakers ==
  "ranking" \in DOMAIN spec /\ "tie_breakers" \in DOMAIN spec.ranking
     /\ spec.ranking.tie_breakers # <<>>

(* the reasons of a 'top' entry's diagnosis that come from the named block *)
HasBlockReason(dx, block_name) ==
  \E k \in 1..Len(DictGet(reasons, dx, <<>>)) :
     DictGet(reasons, dx, <<>>)[k][1].text = <<block_name, ":">>

(* C7 - Ranking order: the entries of 'top' are in non-increasing score
   order and entries of equal score are in the order of spec.diagnoses; the
   order depends on nothing else, so the declared tie_breakers change
   nothing. *)
RankingOrder ==
  (Fresh /\ result.route = "routine") =>
     \A i, j \in 1..Len(result.top) :
        i < j =>
          \/ result.top[i].score > result.top[j].score
          \/ /\ result.top[i].score = result.top[j].score
             /\ Listed(result.top[j].diagnosis_code) =>
                  /\ Listed(result.top[i].diagnosis_code)
                  /\ DiagnosisIndex(result.top[i].diagnosis_code)
                       < DiagnosisIndex(result.top[j].diagnosis_code)

(* a spec that declares tie_breakers ranks a diagnosis with symptom or
   mechanism points only before a diagnosis of equal score that has an exam
   finding, because it is listed first in spec.diagnoses *)
RankingOrderWitness ==
  /\ Fresh /\ result.route = "routine"
  /\ DeclaresTieBreakers
  /\ \E i, j \in 1..Len(result.top) :
        /\ i < j
        /\ result.top[i].score = result.top[j].score
        /\ ~HasBlockReason(result.top[i].diagnosis_code, "exam")
        /\ HasBlockReason(result.top[j].diagnosis_code, "exam")

(* the confidence bands of the spec whose range holds the score *)
BandsHolding(score) ==
  {b \in 1..Len(spec.output.confidence_bands) :
      /\ spec.output.confidence_bands[b].min <= score
      /\ score <= spec.output.confidence_bands[b].max}

(* C8 - Confidence band coverage: under KNEE_OA_SPEC and KNEE_INJURY_SPEC
   the score of every 'top' entry lies in exactly one confidence band of the
   spec, and its confidence_band is low, moderate or high, never 'unknown'. *)
BandCoverage ==
  (Fresh /\ result.route = "routine" /\ spec \in ShippedSpecs) =>
     \A i \in 1..Len(result.top) :
        /\ Cardinality(BandsHolding(result.top[i].score)) = 1
        /\ result.top[i].confidence_band \in {"low", "moderate", "high"}

(* a score on the upper edge of a band (7 or 15) and a score in the last
   band in the same 'top' list *)
BandCoverageWitness ==
  /\ Fresh /\ result.route = "routine" /\ spec \in ShippedSpecs
  /\ \E i, j \in 1..Len(result.top) :
        /\ result.top[i].score >= 16 /\ result.top[i].confidence_band = "high"
        /\ result.top[j].score \in {7, 15}
        /\ result.top[j].confidence_band \in {"low", "moderate"}

(* the record of example scenario 1 was evaluated against KNEE_OA_SPEC *)
Scenario1Evaluated ==
  Fresh /\ spec = KNEE_OA_SPEC /\ input_obj = Scenario1Record

Scenario1TopIsTibiofemoralOa ==
  /\ result.route = "routine"
  /\ Len(result.top) >= 1
  /\ result.top[1].diagnosis_code = "tibiofemoral_oa"
  /\ result.top[1].score >= 13
  /\ DictGet(scores, "tibiofemoral_oa", 0) = result.top[1].score

(* C9 as stated - Example scenario 1: KNEE_OA_SPEC on the record with age 65,
   chronic, overuse, global_pain moderate, stiffness_morning moderate,
   alignment varus and xray_oa_tf true gives tibiofemoral_oa at least 13
   points, ranks it first and gives it confidence_band 'moderate'. *)
Scenario1Moderate ==
  Scenario1Evaluated =>
     (Scenario1TopIsTibiofemoralOa /\ result.top[1].confidence_band = "moderate")

(* C9 as amended - Example scenario 1: on that record tibiofemoral_oa has at
   least 13 points (it has 18: the age/chronic rule adds 3 and the overuse
   rule 2 to the 13 the scenario counts), is first in 'top', and its
   confidence_band is 'high' (band 16-1000). *)
Scenario1 ==
  Scenario1Evaluated =>
     (Scenario1TopIsTibiofemoralOa /\ result.top[1].confidence_band = "high")

Scenario1Witness ==
  /\ Scenario1Evaluated
  /\ result.top[1].diagnosis_code = "tibiofemoral_oa"
  /\ result.top[1].score = 18
  /\ result.top[1].confidence_band = "high"

(* line 181: the aggregate rules are applied *)
AggregatesApplied ==
  \/ get_by_path(input_obj, <<"oa_index">>) # None
  \/ get_by_path(input_obj, <<"knee_score">>) # None

(* knee_score.instability as the deficit rule reads it *)
InstabilityValue ==
  LET v == get_by_path(input_obj, <<"knee_score", "instability">>)
  IN  IF v.t = "int" THEN v.v ELSE 0

IsInstabilityReason(r) == r[1] = AggLabel(<<"instability", " deficit scoring">>)

(* the points logged for dx by the instability deficit rule, in order *)
InstabilityPoints(dx) ==
  LET logged == SelectSeq(DictGet(reasons, dx, <<>>), IsInstabilityReason)
  IN  [k \in 1..Len(logged) |-> logged[k][2]]

(* one addition of pts when pts is positive, none otherwise *)
OnlyIfPositive(pts) == IF pts > 0 THEN <<pts>> ELSE <<>>

(* C10 - Example scenario 3: under KNEE_INJURY_SPEC the instability deficit
   rule (max 25, scale 0.2) gives each target round(multiplier *
   round(0.2 * (25 - instability))) with multiplier 1 for acl_tear, 0.8 for
   patellar_instability and 0.3 for pcl_tear, adds it once when it is
   positive and not at all otherwise, and gives no other diagnosis anything;
   with instability = 0 that is +5, +4 and +2. *)
DeficitScenario ==
  (Fresh /\ result.route = "routine" /\ spec = KNEE_INJURY_SPEC /\ AggregatesApplied) =>
     LET scaled_deficit == Round(2 * (25 - InstabilityValue), 10)
     IN  /\ InstabilityPoints("acl_tear") = OnlyIfPositive(scaled_deficit)
         /\ InstabilityPoints("patellar_instability")
               = OnlyIfPositive(Round(8 * scaled_deficit, 10))
         /\ InstabilityPoints("pcl_tear") = OnlyIfPositive(Round(3 * scaled_deficit, 10))
         /\ \A i \in 1..Len(spec.diagnoses) :
               spec.diagnoses[i] \notin {"acl_tear", "patellar_instability", "pcl_tear"}
                  => InstabilityPoints(spec.diagnoses[i]) = <<>>
         /\ InstabilityValue = 0 =>
               /\ InstabilityPoints("acl_tear") = <<5>>
               /\ InstabilityPoints("patellar_instability") = <<4>>
               /\ InstabilityPoints("pcl_tear") = <<2>>

(* knee_score.instability is reported as 0 and the three targets got 5, 4, 2 *)
DeficitScenarioWitness ==
  /\ Fresh /\ result.route = "routine" /\ spec = KNEE_INJURY_SPEC
  /\ get_by_path(input_obj, <<"knee_score", "instability">>) = PyInt(0)
  /\ InstabilityPoints("acl_tear") = <<5>>
  /\ InstabilityPoints("patellar_instability") = <<4>>
  /\ InstabilityPoints("pcl_tear") = <<2>>

(* the analysis of the current record has been made, with whatever outcome *)
Analysed == result # NoResult /\ pending = <<>>

Failed == "error" \in DOMAIN result

(* the value under the first n keys of the path, when they can be followed *)
RECURSIVE Reached(_, _, _)
Reached(d, path, n) == IF n = 0 THEN d ELSE Reached(d, path, n - 1).v[path[n]]

(* each of the first n keys is found in an object *)
RECURSIVE Followable(_, _, _)
Followable(d, path, n) ==
  IF n = 0 THEN TRUE
  ELSE /\ Followable(d, path, n - 1)
       /\ Reached(d, path, n - 1).t = "dict"
       /\ path[n] \in DOMAIN Reached(d, path, n - 1).v

(* the paths looked up: those of the facts, and paths that go on below a scalar *)
ProbedPaths ==
  {f[1] : f \in Facts}
    \cup {<<"exam", "lachman">>, <<"mechanism", "kind">>, <<"patient", "age_years", "value">>,
          <<"red_flags", "fever_unwell_hot_joint", "since">>}

LachmanCondition == <<<<<<"exam", "lachman">>, PyStr("yes_soft_endpoint")>>>>

(* some diagnosis has a reason logged by a rule with a condition on exam.* *)
ExamReasonLogged ==
  \E i \in 1..Len(reasons) :
     \E k \in 1..Len(reasons[i][2]) :
        \E c \in 1..Len(reasons[i][2][k][1].when) :
           reasons[i][2][k][1].when[c][1][1] = "exam"

(* C11 - Missing paths never error: a lookup returns null when a key of the
   path is missing or a value on the way is not an object, and the value
   under the path otherwise; on a record with no exam key the condition
   {"exam.lachman": "yes_soft_endpoint"} is false and no exam rule adds
   points; a record that has neither oa_index nor knee_score never makes the
   engine fail. *)
MissingPathsNeverError ==
  /\ \A p \in ProbedPaths :
        get_by_path(input_obj, p) = IF Followable(input_obj, p, Len(p))
                                    THEN Reached(input_obj, p, Len(p)) ELSE None
  /\ "exam" \notin DOMAIN input_obj.v =>
        /\ ~condition_match(input_obj, LachmanCondition)
        /\ (Fresh /\ result.route = "routine") => ~ExamReasonLogged
  /\ (Analysed /\ Failed /\ spec # NoSpec) => AggregateGuard(input_obj)

(* a record with no exam key and with a string where the red-flag paths
   expect an object was scored by a spec that has a rule on exam.lachman,
   and other rules gave points *)
MissingPathsNeverErrorWitness ==
  /\ Fresh /\ result.route = "routine"
  /\ "exam" \notin DOMAIN input_obj.v
  /\ "red_flags" \in DOMAIN input_obj.v /\ input_obj.v["red_flags"].t = "str"
  /\ spec = KNEE_INJURY_SPEC
  /\ Len(result.top) >= 1

(* the rules of every scoring block of the spec, and their aggregate entries *)
ScoringRules ==
  IF spec = NoSpec THEN {}
  ELSE LET blocks == Get(spec, "scoring", <<>>)
       IN  UNION {{blocks[b][r] : r \in 1..Len(blocks[b])} : b \in DOMAIN blocks}

AggregateEntries ==
  UNION {{rule.aggregate[a] : a \in 1..Len(rule.aggregate)} :
           rule \in {r \in ScoringRules : "aggregate" \in DOMAIN r}}

(* the codes that the add and then_add maps of the spec give points to *)
ReferencedCodes ==
  UNION {{rule.add[i][1] : i \in 1..Len(rule.add)} :
           rule \in {r \in ScoringRules : "add" \in DOMAIN r}}
    \cup UNION {{agg.then_add[i][1] : i \in 1..Len(agg.then_add)} : agg \in AggregateEntries}

RecognizedMethods == {"sum_function_items", "sum_pf_loaded_items", "deficit", "total"}

(* the formula starts as the method of its aggregate entry expects *)
SupportedFormula(method, expr) ==
  CASE method \in {"sum_function_items", "sum_pf_loaded_items"} ->
         StartsWith(expr, <<"floor(", "total/">>)
    [] method = "deficit" -> StartsWith(expr, <<"round(">>)
    [] method = "total" -> StartsWith(expr, <<"round(", "scale*(">>)
    [] OTHER -> FALSE

(* the three defects of a specification document: an undefined diagnosis
   code, an unrecognized aggregate method, an unsupported formula *)
UndefinedCodeReferenced == \E dx \in ReferencedCodes : ~Listed(dx)

UnrecognizedMethod == \E agg \in AggregateEntries : agg.method \notin RecognizedMethods

UnsupportedFormula ==
  \E agg \in AggregateEntries :
     /\ agg.method \in RecognizedMethods
     /\ \E i \in 1..Len(agg.then_add) : ~SupportedFormula(agg.method, agg.then_add[i][2])

MalformedSpec ==
  spec # NoSpec /\ (UndefinedCodeReferenced \/ UnrecognizedMethod \/ UnsupportedFormula)

(* C12 - Malformed specifications fail fast: a specification with an
   undefined diagnosis code in an add/then_add map, an unrecognized aggregate
   method or an unsupported then_add formula is refused when it is loaded, so
   an analysis with such a specification ends in an error and never in a
   result computed with the rule skipped. *)
MalformedSpecsFailFast == (Analysed /\ MalformedSpec) => Failed

(* the reason was logged by a method that reads oa_index.function *)
IsOaIndexReason(r) ==
  r[1] \in {AggLabel(<<"Function difficulty aggregate">>), AggLabel(<<"PF-loaded tasks aggregate">>)}

(* the reason was logged by a deficit or total method, which read knee_score *)
IsKneeScoreReason(r) ==
  \/ r[1] = AggLabel(<<"Total knee score aggregate">>)
  \/ r[1].when = <<>> /\ Len(r[1].text) = 2 /\ r[1].text[2] = " deficit scoring"

SomeReason(IsMine(_)) ==
  \E i \in 1..Len(reasons) : \E k \in 1..Len(reasons[i][2]) : IsMine(reasons[i][2][k])

(* C13 - Aggregate prerequisite guard: on a record without oa_index the
   ordinal-sum methods add no points, on a record without knee_score the
   deficit and total methods add no points, and the analysis of a record
   that lacks the section a rule reads does not fail because of that rule. *)
AggregatePrerequisiteGuard ==
  /\ (Fresh /\ result.route = "routine") =>
        /\ get_by_path(input_obj, <<"oa_index">>) = None => ~SomeReason(IsOaIndexReason)
        /\ get_by_path(input_obj, <<"knee_score">>) = None => ~SomeReason(IsKneeScoreReason)
  /\ (Analysed /\ Failed /\ spec = KNEE_OA_SPEC) =>
        get_by_path(input_obj, <<"oa_index">>) # None
  /\ (Analysed /\ Failed /\ spec = KNEE_INJURY_SPEC) =>
        get_by_path(input_obj, <<"knee_score">>) # None

(* the evaluation of the current record raises: no red flag ends the call
   before the scoring blocks, and an aggregate rule fails on a value *)
RaisesDuringEvaluation ==
  /\ spec # NoSpec
  /\ FiringRedFlags(spec, input_obj) = {}
  /\ EngineRaises(spec, input_obj)

(* C14 - Failure signalling: when the questionnaire type is unknown, or the
   engine raises during evaluation, the analysis handed to the caller is an
   error value: it has an 'error' entry and neither a route nor a 'top' list. *)
FailureSignalling ==
  (Analysed /\ (spec = NoSpec \/ RaisesDuringEvaluation)) =>
     /\ "error" \in DOMAIN result
     /\ "route" \notin DOMAIN result
     /\ "top" \notin DOMAIN result
     /\ spec = NoSpec => result = FormNotFound
     /\ spec # NoSpec => result.error[1] = "Questionnaire analysis failed: "

(* the knee injury questionnaire was analysed on a record whose
   knee_score.swelling is a word, which the swelling deficit rule cannot
   subtract, and the outcome is the error value *)
FailureSignallingWitness ==
  /\ Analysed /\ spec = KNEE_INJURY_SPEC
  /\ get_by_path(input_obj, <<"knee_score", "swelling">>) = PyStr("moderate")
  /\ RaisesDuringEvaluation
  /\ Failed

(* C15 - Output universe: every diagnosis_code in 'top' of a routine result
   is one of spec.diagnoses, whatever the spec and the record. *)
OutputUniverse ==
  (Fresh /\ result.route = "routine") =>
     \A i \in 1..Len(result.top) : Listed(result.top[i].diagnosis_code)

(* C16 - Safety-net deduplication: the safety_net list of a routine result
   contains no message twice, whatever the spec and the record. *)
SafetyNetDeduplicated ==
  (Fresh /\ result.route = "routine") =>
     \A i, j \in 1..Len(result.safety_net) :
        result.safety_net[i] = result.safety_net[j] => i = j

(* the ordered state list of the questionnaire the agent works with *)
ChosenSequence == StateSequence(agent.current_questionnaire)

(* the position of a state in that list *)
StateIndex(state) == CHOOSE i \in 1..Len(ChosenSequence) : ChosenSequence[i] = state

(* the user messages of the conversation, in order *)
UserMessages == SelectSeq(messages, LAMBDA m : m.role = "user")

(* the history the agent saw in the last turn: all but its own response *)
HistoryOfLastTurn == SubSeq(messages, 1, Len(messages) - 1)

(* how often the agent of the last turn had selected the state before that
   turn: the simulator keeps one agent, the endpoint makes a new one *)
SelectedBefore(state) ==
  IF client = "simulator"
  THEN Cardinality({k \in 1..(Len(emitted) - 1) : emitted[k] = state})
  ELSE 0

(* the information of the state is not in the data extracted from the history *)
Unanswered(state) ==
  StillToAsk(state, extract_patient_data(HistoryOfLastTurn), HistoryOfLastTurn)

(* C17 - Question sequencing advances one state per user turn: the state
   selected after a user message is the immediate successor, in the ordered
   state list, of the state selected before it (COMPLETE has no successor). *)
OneStatePerUserTurn ==
  \A k \in 2..Len(emitted) :
     emitted[k - 1] # "COMPLETE" => StateIndex(emitted[k]) = StateIndex(emitted[k - 1]) + 1

(* C17, amended - the state selected after a user message is the first state
   of the ordered list that the agent has selected less than twice and whose
   information is missing from the data extracted from the whole history,
   COMPLETE when there is none; the list is that of the questionnaire chosen
   from the first user message on one agent and from the last one on a new
   agent; one agent selects no state but COMPLETE a third time. *)
FirstUnansweredState ==
  emitted # <<>> =>
     LET state == emitted[Len(emitted)]
         told  == IF client = "simulator" THEN UserMessages[1]
                  ELSE UserMessages[Len(UserMessages)]
     IN  /\ agent.current_questionnaire = ChooseQuestionnaire("None", <<told>>)
         /\ \E i \in 1..Len(ChosenSequence) : ChosenSequence[i] = state
         /\ state # "COMPLETE" => Unanswered(state) /\ SelectedBefore(state) < 2
         /\ \A j \in 1..(StateIndex(state) - 1) :
               SelectedBefore(ChosenSequence[j]) >= 2 \/ ~Unanswered(ChosenSequence[j])
         /\ client = "simulator" =>
               \A k \in 1..Len(emitted) :
                  emitted[k] # "COMPLETE" =>
                     Cardinality({m \in 1..Len(emitted) : emitted[m] = emitted[k]}) <= 2

(* a conversation on one agent in which one user turn skipped states, the
   next left the state unchanged, and the one after moved on from a question
   that was asked twice and never answered *)
FirstUnansweredStateWitness ==
  /\ client = "simulator"
  /\ Len(emitted) >= 4
  /\ \E k \in 2..(Len(emitted) - 2) :
        /\ StateIndex(emitted[k]) > StateIndex(emitted[k - 1]) + 1
        /\ emitted[k + 1] = emitted[k]
        /\ StateIndex(emitted[k + 2]) > StateIndex(emitted[k])
        /\ Unanswered(emitted[k])

(* C18 - Band assignment: the confidence_band of every 'top' entry is the
   label of the first band of the spec, in array order, whose range min..max
   (both inclusive) contains the score, and it is 'unknown' exactly when no
   band contains the score; so also when bands overlap or leave gaps. *)
BandAssignment ==
  (Fresh /\ result.route = "routine") =>
     \A i \in 1..Len(result.top) :
        LET holding == BandsHolding(result.top[i].score)
        IN  /\ holding # {} =>
                 \E b \in holding :
                    /\ \A c \in holding : b <= c
                    /\ result.top[i].confidence_band = spec.output.confidence_bands[b].label
            /\ result.top[i].confidence_band = "unknown" <=> holding = {}

(* one 'top' list with a score that two overlapping bands contain and a
   score that no band contains *)
BandAssignmentWitness ==
  /\ Fresh /\ result.route = "routine"
  /\ \E i, j \in 1..Len(result.top) :
        /\ Cardinality(BandsHolding(result.top[i].score)) = 2
        /\ result.top[i].confidence_band = "low"
        /\ BandsHolding(result.top[j].score) = {}
        /\ result.top[j].confidence_band = "unknown"

(* the record was scored: no red flag ended the call, no aggregate failed *)
Scored == Fresh /\ result.route = "routine"

RECURSIVE SumPoints(_)
SumPoints(rlist) == IF rlist = <<>> THEN 0 ELSE rlist[1][2] + SumPoints(Tail(rlist))

(* the keys of a scores or reasons dict *)
Keys(d) == {d[i][1] : i \in 1..Len(d)}

(* every score of the step is the sum of the points logged for the diagnosis *)
ScoresAreSums(st) ==
  /\ Keys(st.reasons) \subseteq Keys(st.scores)
  /\ \A dx \in Keys(st.scores) :
        DictGet(st.scores, dx, 0) = SumPoints(DictGet(st.reasons, dx, <<>>))

(* the later step keeps every reason list of the earlier one and only
   appends to it *)
ReasonsAppended(earlier, later) ==
  \A dx \in Keys(earlier.reasons) :
     LET before == DictGet(earlier.reasons, dx, <<>>)
         after  == DictGet(later.reasons, dx, <<>>)
     IN  Len(before) <= Len(after) /\ SubSeq(after, 1, Len(before)) = before

(* the label under which an aggregate entry logs its points *)
EntryLabel(agg) ==
  CASE agg.method = "sum_function_items" -> AggLabel(<<"Function difficulty aggregate">>)
    [] agg.method = "sum_pf_loaded_items" -> AggLabel(<<"PF-loaded tasks aggregate">>)
    [] agg.method = "deficit" -> AggLabel(<<agg.field, " deficit scoring">>)
    [] agg.method = "total" -> AggLabel(<<"Total knee score aggregate">>)
    [] OTHER -> AggLabel(<<>>)

(* where a reason can come from: <<i, 0>> for the i-th rule when it has that
   block and condition, <<i, a>> for entry a of the i-th rule when it is an
   aggregate rule and the entry logs under that label *)
LoggedAt(reason, todo) ==
  {<<i, 0>> : i \in {i \in 1..Len(todo) :
                       /\ "aggregate" \notin DOMAIN todo[i].rule
                       /\ reason[1] = RuleLabel(todo[i].block_name,
                                                Get(todo[i].rule, "when", <<>>))}}
    \cup UNION {{<<i, a>> : a \in {a \in 1..Len(todo[i].rule.aggregate) :
                                     reason[1] = EntryLabel(todo[i].rule.aggregate[a])}} :
                  i \in {i \in 1..Len(todo) : "aggregate" \in DOMAIN todo[i].rule}}

NotAfter(p, q) == p[1] < q[1] \/ (p[1] = q[1] /\ p[2] <= q[2])

(* C19 - Score/reason consistency: before the first rule, after every rule
   application and when scoring ends, the score of every diagnosis is the sum
   of the points in its reason list; every rule application only appends to
   the reason lists, so each list is in the order of the additions: a reason
   of a later rule, or of a later entry of the same aggregate rule, never
   stands before a reason of an earlier one. *)
ScoreReasonConsistency ==
  Scored =>
     LET steps == ScoringSteps(spec, input_obj)
         todo  == RulesInOrderFrom(spec, 1)
     IN  /\ steps[Len(steps)] = [scores |-> scores, reasons |-> reasons]
         /\ \A k \in 1..Len(steps) : ScoresAreSums(steps[k])
         /\ \A k \in 2..Len(steps) : ReasonsAppended(steps[k - 1], steps[k])
         /\ \A dx \in Keys(reasons) :
               LET rlist == DictGet(reasons, dx, <<>>)
               IN  \A m, n \in 1..Len(rlist) :
                      m < n => \E p \in LoggedAt(rlist[m], todo) :
                                  \E q \in LoggedAt(rlist[n], todo) : NotAfter(p, q)

(* under the knee injury spec a diagnosis got points from a rule with a
   condition, then from at least two deficit entries, and tibiofemoral_oa
   from the total method *)
ScoreReasonConsistencyWitness ==
  /\ Scored /\ spec = KNEE_INJURY_SPEC
  /\ \E dx \in Keys(reasons) :
        LET rlist == DictGet(reasons, dx, <<>>)
        IN  /\ Len(rlist) >= 3
            /\ rlist[1][1].when # <<>>
            /\ IsKneeScoreReason(rlist[Len(rlist) - 1])
            /\ IsKneeScoreReason(rlist[Len(rlist)])
  /\ \E k \in 1..Len(DictGet(reasons, "tibiofemoral_oa", <<>>)) :
        DictGet(reasons, "tibiofemoral_oa", <<>>)[k][1] = AggLabel(<<"Total knee score aggregate">>)

(* C20 - Non-negative scores: under both shipped specs every diagnosis of
   spec.diagnoses starts at 0, every score is a non-negative integer before
   the first rule, after every rule application and when scoring ends, no
   rule application lowers a score, and no reason with zero or negative
   points is logged (an aggregate result that is not positive is not added). *)
NonNegativeScores ==
  (Scored /\ spec \in ShippedSpecs) =>
     LET steps == ScoringSteps(spec, input_obj)
     IN  /\ steps[Len(steps)] = [scores |-> scores, reasons |-> reasons]
         /\ Keys(steps[1].scores) = {spec.diagnoses[i] : i \in 1..Len(spec.diagnoses)}
         /\ \A dx \in Keys(steps[1].scores) : DictGet(steps[1].scores, dx, 1) = 0
         /\ \A k \in 1..Len(steps) :
               \A dx \in Keys(steps[k].scores) : DictGet(steps[k].scores, dx, 0 - 1) \in Nat
         /\ \A k \in 2..Len(steps) :
               \A dx \in Keys(steps[k - 1].scores) :
                  DictGet(steps[k].scores, dx, 0 - 1) >= DictGet(steps[k - 1].scores, dx, 0)
         /\ \A dx \in Keys(reasons) :
               \A m \in 1..Len(DictGet(reasons, dx, <<>>)) :
                  DictGet(reasons, dx, <<>>)[m][2] > 0

(* the knee injury spec scored a record whose knee_score.squatting is above
   the maximum of its deficit rule, so the deficit is negative, and whose
   other sub-scores gave points *)
NonNegativeScoresWitness ==
  /\ Scored /\ spec = KNEE_INJURY_SPEC
  /\ get_by_path(input_obj, <<"knee_score", "squatting">>) = PyInt(10)
  /\ SomeReason(IsKneeScoreReason)
  /\ \A dx \in Keys(reasons) :
        \A m \in 1..Len(DictGet(reasons, dx, <<>>)) :
           DictGet(reasons, dx, <<>>)[m][1] # AggLabel(<<"squatting", " deficit scoring">>)

(* the place of reason q of the list rl when the list is ordered by points,
   highest first, reasons with equal points in the order they were logged *)
PlaceByPoints(rl, q) ==
  1 + Cardinality({p \in 1..Len(rl) : rl[p][2] > rl[q][2] \/ (rl[p][2] = rl[q][2] /\ p < q)})

(* C21 - Key-driver selection: every 'top' entry has at most
   max_reasons_per_dx key drivers (4 when not configured); they are the
   reasons of its diagnosis with the highest points, highest first, and
   reasons with equal points keep the order in which they were logged. *)
KeyDriverSelection ==
  (Fresh /\ result.route = "routine") =>
     \A e \in 1..Len(result.top) :
        LET rl == DictGet(reasons, result.top[e].diagnosis_code, <<>>)
            kd == result.top[e].key_drivers
            n  == MaxReasons(spec)
        IN  /\ Len(kd) <= n
            /\ Len(kd) = IF Len(rl) < n THEN Len(rl) ELSE n
            /\ \A q \in 1..Len(rl) :
                  PlaceByPoints(rl, q) <= n => kd[PlaceByPoints(rl, q)] = KeyDriver(rl[q])
            /\ \A i \in 1..(Len(kd) - 1) : kd[i].plus >= kd[i + 1].plus

(* a 'top' entry whose diagnosis has more reasons than max_reasons_per_dx,
   two of them with equal points, and whose key drivers are not the first
   reasons as logged *)
KeyDriverSelectionWitness ==
  /\ Fresh /\ result.route = "routine"
  /\ \E e \in 1..Len(result.top) :
        LET rl == DictGet(reasons, result.top[e].diagnosis_code, <<>>)
            kd == result.top[e].key_drivers
        IN  /\ Len(rl) > MaxReasons(spec)
            /\ \E i \in 1..(Len(kd) - 1) : kd[i].plus = kd[i + 1].plus
            /\ \E i \in 1..Len(kd) : kd[i] # KeyDriver(rl[i])

(* the expected value is compared by the else branch of condition_match
   (lines 56-58): it is no list, no operator string, and not a string under
   the key 'phenotype' *)
ComparedExactly(key, expected) ==
  /\ expected.t # "list"
  /\ ~IsOperatorString(expected)
  /\ ~(key = <<"phenotype">> /\ expected.t = "str")

(* C22 - Exact-equality conditions are type-preserving: a scalar expected
   value that is no operator string matches iff the resolved value is the
   same value of the same type (an expected true does not match a stored 1);
   so every reason logged for a rule rests on values of the expected type. *)
ExactEqualityTypePreserving ==
  Scored =>
     /\ \A r \in 1..Len(RulesInOrderFrom(spec, 1)) :
           LET when == Get(RulesInOrderFrom(spec, 1)[r].rule, "when", <<>>)
           IN  \A i \in 1..Len(when) :
                  ComparedExactly(when[i][1], when[i][2]) =>
                     (KeyMatches(input_obj, when[i][1], when[i][2])
                        <=> get_by_path(input_obj, when[i][1]) = when[i][2])
     /\ \A dx \in Keys(reasons) :
           \A m \in 1..Len(DictGet(reasons, dx, <<>>)) :
              LET when == DictGet(reasons, dx, <<>>)[m][1].when
              IN  \A i \in 1..Len(when) :
                     ComparedExactly(when[i][1], when[i][2]) =>
                        get_by_path(input_obj, when[i][1]) = when[i][2]

(* the comparison operators of condition_match *)
Comparators == {<<">", "=">>, <<"<", "=">>, <<">">>, <<"<">>, <<"=">>}

(* the longest comparison operator the string starts with *)
LongestComparator(cs) ==
  CHOOSE op \in Comparators :
     /\ StartsWith(cs, op)
     /\ \A other \in Comparators : StartsWith(cs, other) => Len(other) <= Len(op)

(* num op bound *)
Compares(op, num, bound) ==
  CASE op = <<">", "=">> -> num >= bound
    [] op = <<"<", "=">> -> num <= bound
    [] op = <<">">>      -> num > bound
    [] op = <<"<">>      -> num < bound
    [] op = <<"=">>      -> num = bound

(* the resolved value coerces to a number that satisfies the comparison of
   the expected string, read with its longest operator *)
SatisfiesComparison(val, expected) ==
  LET cs == Chars(expected.v)
      op == LongestComparator(cs)
  IN  /\ val.t # "none"
      /\ FloatOf(val)[1]
      /\ Compares(op, FloatOf(val)[2], DigitsVal(SubSeq(cs, Len(op) + 1, Len(cs))))

(* the diagnoses whose reasons name a rule with this expected string *)
LoggedFor(expected) ==
  {dx \in Keys(reasons) :
     \E m \in 1..Len(DictGet(reasons, dx, <<>>)) :
        \E i \in 1..Len(DictGet(reasons, dx, <<>>)[m][1].when) :
           DictGet(reasons, dx, <<>>)[m][1].when[i][2] = expected}

(* C23 - Numeric comparator conditions: an expected string that starts with
   >=, <=, >, < or = holds iff the resolved value coerces to a number that
   satisfies the comparison with the numeric suffix, >= and <= being read
   before > and <; a missing, null or non-numeric value makes the condition
   false and the call still returns a result (no aggregate rule being
   applied, whose errors are another matter). *)
NumericComparators ==
  (Analysed /\ spec \in ShippedSpecs \cup {TEST_SPEC_COMPARATORS}) =>
     /\ (spec = TEST_SPEC_COMPARATORS \/ ~AggregateGuard(input_obj)) => ~Failed
     /\ \A r \in 1..Len(RulesInOrderFrom(spec, 1)) :
           LET when == Get(RulesInOrderFrom(spec, 1)[r].rule, "when", <<>>)
           IN  \A i \in 1..Len(when) :
                  IsOperatorString(when[i][2]) =>
                     (KeyMatches(input_obj, when[i][1], when[i][2])
                        <=> SatisfiesComparison(get_by_path(input_obj, when[i][1]), when[i][2]))
     /\ (spec = TEST_SPEC_COMPARATORS /\ result.route = "routine") =>
           \A r \in 1..Len(spec.scoring.mechanism) :
              LET rule == spec.scoring.mechanism[r]
              IN  SatisfiesComparison(get_by_path(input_obj, rule.when[1][1]), rule.when[1][2])
                     <=> rule.add[1][1] \in LoggedFor(rule.when[1][2])

(* the operator rules were evaluated on an age at the bound, which satisfies
   exactly >=, <= and = *)
NumericComparatorsWitness ==
  /\ Analysed /\ spec = TEST_SPEC_COMPARATORS
  /\ get_by_path(input_obj, <<"patient", "age_years">>) = PyInt(45)
  /\ Keys(reasons) = {"dx_ge", "dx_le", "dx_eq"}

(* the record's phenotype is a list that contains the string *)
PhenotypeContains(expected) ==
  LET val == get_by_path(input_obj, <<"phenotype">>)
  IN  val.t = "list" /\ \E j \in 1..Len(val.v) : val.v[j] = expected

(* the rules whose only condition is a string expected under 'phenotype' *)
PhenotypeRules ==
  {r \in 1..Len(RulesInOrderFrom(spec, 1)) :
     LET rule == RulesInOrderFrom(spec, 1)[r].rule
     IN  /\ "aggregate" \notin DOMAIN rule
         /\ "add" \in DOMAIN rule
         /\ Len(Get(rule, "when", <<>>)) = 1
         /\ rule.when[1][1] = <<"phenotype">>
         /\ rule.when[1][2].t = "str"}

(* every diagnosis of the rule's add map has a reason with the rule's label *)
RuleLogged(r) ==
  LET item == RulesInOrderFrom(spec, 1)[r]
  IN  \A a \in 1..Len(item.rule.add) :
         \E m \in 1..Len(DictGet(reasons, item.rule.add[a][1], <<>>)) :
            DictGet(reasons, item.rule.add[a][1], <<>>)[m]
               = <<RuleLabel(item.block_name, item.rule.when), item.rule.add[a][2]>>

(* no diagnosis has a reason with the rule's label *)
RuleNotLogged(r) ==
  LET item == RulesInOrderFrom(spec, 1)[r]
  IN  \A dx \in Keys(reasons) :
         \A m \in 1..Len(DictGet(reasons, dx, <<>>)) :
            DictGet(reasons, dx, <<>>)[m][1] # RuleLabel(item.block_name, item.rule.when)

(* C24 - Phenotype semantics: a condition with the key 'phenotype' and a
   string expected holds iff the record's phenotype is a list that contains
   the string; an absent, null or non-list phenotype makes it false; each
   phenotype rule gives its points on its own, so a record can satisfy
   several of them at once. *)
PhenotypeSemantics ==
  Scored =>
     \A r \in PhenotypeRules :
        LET rule == RulesInOrderFrom(spec, 1)[r].rule
        IN  /\ KeyMatches(input_obj, <<"phenotype">>, rule.when[1][2])
                 <=> PhenotypeContains(rule.when[1][2])
            /\ IF PhenotypeContains(rule.when[1][2]) THEN RuleLogged(r) ELSE RuleNotLogged(r)

(* a phenotype list with two entries satisfied two phenotype rules of the
   knee OA specification in one call, and not the third *)
PhenotypeSemanticsWitness ==
  /\ Scored /\ spec = KNEE_OA_SPEC
  /\ Cardinality({r \in PhenotypeRules : RuleLogged(r)}) = 2
  /\ Cardinality({r \in PhenotypeRules : RuleNotLogged(r)}) = 1

(* how often the state was selected so far *)
TimesEmitted(state) == IF state \in DOMAIN times_emitted THEN times_emitted[state] ELSE 0

(* the states of the agent's sequence other than COMPLETE *)
Questions == {ChosenSequence[i] : i \in 1..Len(ChosenSequence)} \ {"COMPLETE"}

(* the calls so far that selected a state other than COMPLETE *)
QuestionsAsked == Calls - TimesEmitted("COMPLETE")

(* C25 - Repeat cap on one agent: over any sequence of get_next_response
   calls on one TriageAgent, with any histories, no state but COMPLETE is
   selected more than twice; so at most twice as many calls as the sequence
   has states other than COMPLETE select a question, and every call after
   them selects COMPLETE. *)
RepeatCapOneAgent ==
  /\ [](\A state \in DOMAIN times_emitted \ {"COMPLETE"} : times_emitted[state] <= 2)
  /\ [](QuestionsAsked <= 2 * Cardinality(Questions))
  /\ [][QuestionsAsked = 2 * Cardinality(Questions)
          => TimesEmitted("COMPLETE")' = TimesEmitted("COMPLETE") + 1]_vars

(* every state of the sequence but COMPLETE was selected twice, and the
   calls after that selected COMPLETE *)
RepeatCapOneAgentWitness ==
  /\ agent.current_questionnaire # "None"
  /\ \A state \in Questions : TimesEmitted(state) = 2
  /\ TimesEmitted("COMPLETE") >= 2

(* C26 - Repeat cap across requests: in a conversation through the /ask
   endpoint no state but COMPLETE is selected more than twice, whatever the
   user answers. *)
RepeatCapAcrossRequests ==
  client = "ui" =>
    \A state \in DOMAIN times_emitted \ {"COMPLETE"} : times_emitted[state] <= 2

(* the items of a sequence from the last to the first *)
Reversed(s) == [i \in 1..Len(s) |-> s[Len(s) + 1 - i]]

(* the rules block by block in the order of the block names given, the rules
   of a block in list order *)
RECURSIVE RulesOfBlocks(_, _)
RulesOfBlocks(names, b) ==
  IF b > Len(names) THEN <<>>
  ELSE LET rules == Get(Get(spec, "scoring", <<>>), names[b], <<>>)
       IN  [r \in 1..Len(rules) |-> [block_name |-> names[b], rule |-> rules[r]]]
             \o RulesOfBlocks(names, b + 1)

(* other orders of evaluation: everything backwards, the blocks backwards
   with their rules in list order, the blocks in order with their rules
   backwards *)
OtherOrders ==
  {Reversed(RulesInOrderFrom(spec, 1)),
   RulesOfBlocks(Reversed(BlockOrder), 1),
   Reversed(RulesOfBlocks(Reversed(BlockOrder), 1))}

(* scores and reasons when the rules are evaluated in the order todo *)
ScoreInOrder(todo) ==
  ScoringStepsFrom(spec, input_obj, InitScores(spec.diagnoses), todo, 1)[Len(todo) + 1]

(* the entries of a result's top without their key drivers *)
TopMembers(res) ==
  {<<res.top[i].diagnosis_code, res.top[i].score, res.top[i].confidence_band>> :
     i \in 1..Len(res.top)}

(* the scores as a set of pairs *)
ScoreSet(sc) == {sc[i] : i \in 1..Len(sc)}

(* the scores are the same in the other orders *)
SameScoresInOtherOrders ==
  Scored => \A todo \in OtherOrders : ScoreSet(ScoreInOrder(todo).scores) = ScoreSet(scores)

(* C27 - Order independence of scores: for every spec and record with no red
   flag, the final score of every diagnosis, the members of top and their
   bands are the same in every order in which the blocks and the rules
   inside them are evaluated. *)
OrderIndependence ==
  Scored =>
    \A todo \in OtherOrders :
       /\ ScoreSet(ScoreInOrder(todo).scores) = ScoreSet(scores)
       /\ TopMembers(RoutineResult(spec, input_obj, ScoreInOrder(todo))) = TopMembers(result)

(* the message of the any-red-flag safety-net rule of both shipped specs *)
UrgentMessage == "Urgent same-day assessment recommended."

(* the result holds the message in its safety net *)
InSafetyNet(message) == \E i \in 1..Len(result.safety_net) : result.safety_net[i] = message

(* C28 - Under both shipped specs no routine result contains the
   any-red-flag message: each canonical red-flag path is by itself a
   red_flag_logic entry, so when one of them is truthy the gate has returned
   the urgent result. *)
NoUrgentMessageInRoutine ==
  (Fresh /\ spec \in ShippedSpecs) =>
     /\ \A i \in 1..Len(CanonicalRedFlagPaths) :
           \E e \in 1..Len(RedFlagLogic) :
              RedFlagLogic[e].if_all_true = <<CanonicalRedFlagPaths[i]>>
     /\ any_red_flag(input_obj) => result.route = "urgent"
     /\ result.route = "routine" => ~InSafetyNet(UrgentMessage)

(* a routine result under a shipped spec for a record whose red_flags
   section holds the three canonical paths, none of them truthy, and whose
   safety net holds another message *)
NoUrgentMessageInRoutineWitness ==
  /\ Fresh /\ spec \in ShippedSpecs
  /\ result.route = "routine"
  /\ any_red_flagIfPresent(input_obj)
  /\ result.safety_net # <<>>

(* the record _extract_patient_data builds from the history, as the input
   object of the engine *)
ExtractedRecord == PyDict(extract_patient_data(messages))

(* C29 - For every message history the record built by
   _extract_patient_data holds red_flags as null or as a string, never as a
   nested object, so every red_flags.* path resolves to null and the engine
   run on the record with either shipped spec never returns route 'urgent',
   also when the patient's message speaks of fever. *)
NoUrgentFromExtraction ==
  \E record \in {ExtractedRecord} :
     /\ record.v.red_flags.t \in {"none", "str"}
     /\ \A i \in 1..Len(CanonicalRedFlagPaths) :
           get_by_path(record, CanonicalRedFlagPaths[i]) = None
     /\ \A shipped \in ShippedSpecs :
           \A e \in 1..Len(shipped.red_flag_logic) :
              \A p \in 1..Len(shipped.red_flag_logic[e].if_all_true) :
                 get_by_path(record, shipped.red_flag_logic[e].if_all_true[p]) = None
     /\ \A shipped \in ShippedSpecs :
           \E out \in {run_questionnaire_engine(shipped, record)} :
              out.result # Raised /\ out.result.route # "urgent"

(* a message with the word fever was sent: red_flags holds its text, and
   the engine returns a routine result for the record under both specs *)
NoUrgentFromExtractionWitness ==
  /\ \E m \in 1..Len(messages) :
        /\ messages[m].role = "user"
        /\ "fever" \in messages[m].content.words
  /\ \E record \in {ExtractedRecord} :
        /\ record.v.red_flags.t = "str"
        /\ \A shipped \in ShippedSpecs :
              run_questionnaire_engine(shipped, record).result.route = "routine"

(* the deficit entries of the aggregate rules of the spec *)
DeficitEntries == {agg \in AggregateEntries : Get(agg, "method", "") = "deficit"}

(* knee_score gives no value for the field: the field is absent, or it is
   stored as 0 or as null *)
MissingSubScore(field) == ~Truthy(get_by_path(input_obj, <<"knee_score", field>>))

(* the formula is round(scale*deficit) or round(m*scale*deficit) *)
HasMultiplierForm(expr) ==
  \/ expr = <<"round(", "scale*deficit", ")">>
  \/ Len(expr) = 5 /\ expr[1] = "round(" /\ expr[3] = "*" /\ expr[4] = "scale*deficit"
       /\ expr[5] = ")"

(* round(multiplier * round(scale * max)), scale and multiplier in tenths *)
WorstPoints(agg, expr) ==
  LET multiplier == IF Len(expr) = 5 THEN ParseTenths(expr[2]) ELSE 10
  IN  Round(multiplier * Round(Get(agg, "scale", 10) * Get(agg, "max", 0), 10), 10)

(* the points logged for dx by the deficit rule of the field, in order *)
DeficitPointsLogged(dx, field) ==
  LET logged == DictGet(reasons, dx, <<>>)
      mine   == {k \in 1..Len(logged) : logged[k][1] = AggLabel(<<field, " deficit scoring">>)}
  IN  IF mine = {} THEN <<>>
      ELSE [k \in 1..Cardinality(mine) |->
              logged[CHOOSE j \in mine : Cardinality({m \in mine : m <= j}) = k][2]]

(* C30 - In the deficit aggregate a sub-score that is absent from
   knee_score, or stored as 0 or null, counts as the value 0: whenever the
   aggregate rules are applied the field yields the maximum deficit, and
   each target of the rule receives round(multiplier * round(scale * max))
   points, as for the worst possible function. *)
MissingSubScoreIsWorst ==
  (Scored /\ AggregatesApplied) =>
     \A agg \in DeficitEntries :
        MissingSubScore(agg.field) =>
           /\ ScaledDeficit(agg, input_obj) = Round(Get(agg, "scale", 10) * Get(agg, "max", 0), 10)
           /\ \A t \in 1..Len(agg.then_add) :
                 HasMultiplierForm(agg.then_add[t][2]) =>
                    DeficitPointsLogged(agg.then_add[t][1], agg.field)
                       = OnlyIfPositive(WorstPoints(agg, agg.then_add[t][2]))

(* under KNEE_INJURY_SPEC instability is stored as 0 and locking is absent
   from knee_score: acl_tear got the 5 points and medial_meniscal_tear the
   4 points of the full deficits *)
MissingSubScoreIsWorstWitness ==
  /\ Scored /\ AggregatesApplied /\ spec = KNEE_INJURY_SPEC
  /\ get_by_path(input_obj, <<"knee_score", "instability">>) = PyInt(0)
  /\ get_by_path(input_obj, <<"knee_score">>).t = "dict"
  /\ "locking" \notin DOMAIN get_by_path(input_obj, <<"knee_score">>).v
  /\ DeficitPointsLogged("acl_tear", "instability") = <<5>>
  /\ DeficitPointsLogged("medial_meniscal_tear", "locking") = <<4>>

====
